---- MODULE Spec2Model ----
(***************************************************************************)
(* Model of the two scripts of the repository:                             *)
(*   compare_models.py   the model-diff tool (find_model_path, main, ...)  *)
(*   email_processor.py  the mailbox-ingest pipeline (WorkdayEmailProcessor)*)
(* Each script is a sequential program; its external calls (git, dbt, the  *)
(* file system, the mailbox, the spreadsheet service) are steps whose      *)
(* outcome is chosen nondeterministically.                                 *)
(***************************************************************************)
EXTENDS Integers, Sequences, FiniteSets, TLC

VARIABLES
    \* ---- compare_models.py ----
    fs,                 \* the .sql files and the macro file that exist
    in_project,         \* some ancestor of the cwd holds dbt_project.yml
    arg,                \* args.model_name
    include_downstream, \* args.include_downstream
    pc,                 \* position in main()
    model_path,         \* main(): model_path
    main_path,          \* main(): main_path
    current_path,       \* main(): current_path
    macro_path,         \* main(): macro_path
    downstream_models,  \* main(): downstream_models
    down_i,             \* index of the downstream model of the current iteration
    down_paths,         \* [main, current, macro] paths of the current iteration
    pending,            \* how the try body ended: "none", "exit1", "exception"
    exit_status,        \* the process's exit status, None while it runs
    saved,              \* names save_results persisted a comparison for
    steps,              \* the external steps taken so far, in order
    lookup,             \* the last call of find_model_path: files, arg, result
    baseline,           \* the last call of get_main_branch_content
    last_call,          \* a function called on its own: arguments and result
    \* ---- email_processor.py ----
    config,             \* self.config: archive method, column mapping
    ipc,                \* position in __init__() and run()
    temp_dir,           \* self.temp_dir: "none", "exists", "removed"
    tmp,                \* the files of the temp directory: file name -> table
    downloaded_files,   \* run(): downloaded_files
    file_i,             \* index of the file of the current iteration
    results,            \* run(): results
    sheet,              \* the rows of the worksheet of each kind
    archive,            \* the local archive tree: path -> content
    now,                \* the clock, in seconds
    calls,              \* the calls run() made for each file, in order
    last_append,        \* the last call of append_to_gsheet
    last_archive,       \* the last call of archive_file
    norm,               \* the last call of a normalizer
    mailbox,            \* the mailbox the last fetch read, where it is kept
    ncalls              \* the number of calls made, in a sequence of calls

diffVars == <<fs, in_project, arg, include_downstream, pc, model_path, main_path,
              current_path, macro_path, downstream_models, down_i, down_paths,
              pending, exit_status, saved, steps, lookup, baseline,
              last_call>>

ingestVars == <<config, ipc, temp_dir, tmp, downloaded_files, file_i, results,
                sheet, archive, now, calls, last_append, last_archive, norm,
                mailbox, ncalls>>

vars == <<diffVars, ingestVars>>

None == "None"
\* the value of a path variable that holds None
NoPath == [dir |-> <<>>, stem |-> <<>>]

\* ---------------------------------------------------------------- bounds

\* the most downstream models 'dbt list' reports
MaxDown == 2
\* the most attachments one fetch returns
MaxFiles == 2
\* the most data rows of an incoming table
MaxRows == 2
\* the last second the clock reaches
MaxClock == 2
\* the most calls of archive_file in a sequence of calls
MaxCalls == 3

\* ------------------------------------------------------- names and paths

\* A file name is a sequence of characters; a path is a directory and a stem
\* (the file name without ".sql").
Stems == {<<"a">>, <<"b", "a">>}
ModelDirs == {<<"models", "d1">>, <<"models", "d2">>}
ModelFiles == [dir : ModelDirs, stem : Stems]
\* the model names asked for: "a", "ba" and "b" (no file is named b.sql)
Names == Stems \cup {<<"b">>}
\* args.model_name: a bare name, or a path ending in ".sql"
Args == [sql : {FALSE}, dir : {<<>>}, stem : Names]
            \cup [sql : {TRUE}, dir : ModelDirs, stem : Stems]

EndsWith(s, suffix) ==
    /\ Len(suffix) <= Len(s)
    /\ SubSeq(s, Len(s) - Len(suffix) + 1, Len(s)) = suffix

UnderModels(p) == Len(p.dir) >= 1 /\ p.dir[1] = "models"

\* models_dir.rglob(f"*{model_name}.sql")
rglob(files, model_name) ==
    {p \in files : UnderModels(p) /\ EndsWith(p.stem, model_name)}

\* find_model_path without the test for several matches: it returns the
\* first match
find_model_path_first(files, inproj, a) ==
    IF ~inproj
    THEN [path |-> NoPath, outcome |-> "no_project", reported |-> {}]
    ELSE IF a.sql /\ [dir |-> a.dir, stem |-> a.stem] \in files
    THEN [path |-> [dir |-> a.dir, stem |-> a.stem], outcome |-> "path",
          reported |-> {}]
    ELSE LET matches == rglob(files, a.stem) IN
         IF matches = {}
         THEN [path |-> NoPath, outcome |-> "not_found", reported |-> {}]
         ELSE [path |-> CHOOSE p \in matches : TRUE, outcome |-> "found",
               reported |-> {}]

\* find_model_path without the test for a path that exists: it searches
\* the models directory for the stem of the path
find_model_path_searching(files, inproj, a) ==
    IF ~inproj
    THEN [path |-> NoPath, outcome |-> "no_project", reported |-> {}]
    ELSE LET matches == rglob(files, a.stem) IN
         IF matches = {}
         THEN [path |-> NoPath, outcome |-> "not_found", reported |-> {}]
         ELSE IF Cardinality(matches) > 1
         THEN [path |-> NoPath, outcome |-> "ambiguous", reported |-> matches]
         ELSE [path |-> CHOOSE p \in matches : TRUE, outcome |-> "found",
               reported |-> {}]

\* find_model_path(model_name): .path is what it returns, .outcome and
\* .reported are what it prints.
find_model_path(files, inproj, a) ==
    IF ~inproj
    THEN [path |-> NoPath, outcome |-> "no_project", reported |-> {}]
    ELSE IF a.sql /\ [dir |-> a.dir, stem |-> a.stem] \in files
    THEN [path |-> [dir |-> a.dir, stem |-> a.stem], outcome |-> "path",
          reported |-> {}]
    ELSE LET matches == rglob(files, a.stem) IN
         IF matches = {}
         THEN [path |-> NoPath, outcome |-> "not_found", reported |-> {}]
         ELSE IF Cardinality(matches) > 1
         THEN [path |-> NoPath, outcome |-> "ambiguous", reported |-> matches]
         ELSE [path |-> CHOOSE p \in matches : TRUE, outcome |-> "found",
               reported |-> {}]

\* get_main_branch_content: the outcome of the git calls decides the result.
\*   "content"         git show prints the baseline content
\*   "empty"           git show prints nothing (the file is empty on main)
\*   "rev_parse_fails" git rev-parse returns non-zero: the handler formats
\*                     relative_path, which is unbound, and raises
\*   "show_fails"      git show returns non-zero: the handler calls
\*                     e.stderr.decode() on a str (text=True) and raises
\*   "no_git"          any other exception: returns None
GitOutcomes == {"content", "empty", "rev_parse_fails", "show_fails", "no_git"}
get_main_branch_content(git) ==
    CASE git = "content" -> [raised |-> FALSE, value |-> "content"]
      [] git = "empty" -> [raised |-> FALSE, value |-> ""]
      [] git \in {"rev_parse_fails", "show_fails"} ->
            [raised |-> TRUE, value |-> None]
      [] OTHER -> [raised |-> FALSE, value |-> None]

\* temp_name = f"temp_{original_name}_{suffix}"
temp_name(original_name, suffix) == <<"temp_">> \o original_name \o <<"_">> \o suffix

\* create_temp_model: the path it writes, analysis_dir / f"{temp_name}.sql"
temp_path(model_dir, original_name, suffix) ==
    [dir |-> model_dir \o <<"analysis">>, stem |-> temp_name(original_name, suffix)]

\* create_comparison_macro: macros/compare_versions.sql
MacroFile == [dir |-> <<"macros">>, stem |-> <<"compare_versions">>]

\* "if not main_content": None and the empty string are both falsy
Falsy(content) == content = None \/ content = ""

\* ------------------------------------------------- compare_models.main()

\* a step of the log: the operation, the model it is for, and whether the
\* external call succeeded (what the tool did, not what main made of it)
Step(op, model, ok) == [op |-> op, model |-> model, ok |-> ok]

\* main(): model_dir = model_path.parent, original_name = model_path.stem
model_dir == model_path.dir
original_name == model_path.stem

\* a status test that lets every status pass
returncode_ignored(returncode) == FALSE

\* "if main_result.returncode != 0: sys.exit(1)", and check=True of the other
\* dbt invocations, which raises CalledProcessError on a non-zero status
returncode_fails(returncode) == returncode # 0

\* sys.exit(1) inside the outer try: SystemExit runs the finally block
SysExit1 == pc' = "finally" /\ pending' = "exit1"
\* an exception nothing catches inside the outer try: it runs the finally
\* block and the interpreter then ends the process with status 1
Raise == pc' = "finally" /\ pending' = "exception"

NoLookup == [files |-> {}, arg |-> [sql |-> FALSE, dir |-> <<>>, stem |-> <<>>],
             result |-> [path |-> NoPath, outcome |-> "none", reported |-> {}]]

\* no function called on its own
NoCall == [fn |-> "none"]

\* no call of get_main_branch_content yet
NoBaseline == [git |-> "none", raised |-> FALSE, value |-> None]

DiffInit ==
    /\ fs \in SUBSET ModelFiles
    /\ in_project \in BOOLEAN
    /\ arg \in Args
    /\ include_downstream \in BOOLEAN
    /\ pc = "locate"
    /\ model_path = NoPath
    /\ main_path = NoPath
    /\ current_path = NoPath
    /\ macro_path = NoPath
    /\ downstream_models = <<>>
    /\ down_i = 0
    /\ down_paths = [model |-> NoPath, main |-> NoPath, current |-> NoPath,
                     macro |-> NoPath]
    /\ pending = "none"
    /\ exit_status = None
    /\ saved = {}
    /\ steps = <<>>
    /\ lookup = NoLookup
    /\ baseline = NoBaseline
    /\ last_call = NoCall

\* lines 349-353: model_path = find_model_path(args.model_name)
Locate ==
    /\ pc = "locate"
    /\ LET r == find_model_path(fs, in_project, arg) IN
       /\ model_path' = r.path
       /\ lookup' = [files |-> fs, arg |-> arg, result |-> r]
       /\ steps' = Append(steps, Step("locate", arg.stem, r.path # NoPath))
       /\ IF r.path = NoPath
          THEN SysExit1
          ELSE pc' = "fetch" /\ UNCHANGED pending
    /\ UNCHANGED <<fs, in_project, arg, include_downstream, main_path,
                   current_path, macro_path, downstream_models, down_i,
                   down_paths, exit_status, saved, baseline, last_call>>

\* lines 355-360: read the current content, fetch the baseline content
FetchBaseline ==
    /\ pc = "fetch"
    /\ \E git \in GitOutcomes :
        LET r == get_main_branch_content(git) IN
        /\ steps' = Append(steps, Step("fetch", original_name, git = "content"))
        /\ baseline' = [git |-> git, raised |-> r.raised, value |-> r.value]
        /\ IF r.raised THEN Raise
           ELSE IF Falsy(r.value) THEN SysExit1
           ELSE pc' = "create_temps" /\ UNCHANGED pending
    /\ UNCHANGED <<fs, in_project, arg, include_downstream, model_path,
                   main_path, current_path, macro_path, downstream_models,
                   down_i, down_paths, exit_status, saved, lookup, last_call>>

\* create_temp_model: written is whether the file could be written; it
\* returns the path, or None when an exception was caught
create_temp_model(written, suffix, name, dir) ==
    IF written THEN temp_path(dir, name, suffix) ELSE NoPath

\* the files after a step that created the paths of ps that are not None
Created(files, ps) == files \cup (ps \ {NoPath})

\* lines 365-375: both temp models are created, then both are tested
CreateTempModels ==
    /\ pc = "create_temps"
    /\ \E w1 \in BOOLEAN, w2 \in BOOLEAN :
        LET p1 == create_temp_model(w1, <<"main">>, original_name, model_dir)
            p2 == create_temp_model(w2, <<"current">>, original_name, model_dir)
        IN
        /\ main_path' = p1
        /\ current_path' = p2
        /\ fs' = Created(fs, {p1, p2})
        /\ steps' = Append(steps, Step("create_temps", original_name, w1 /\ w2))
        /\ IF p1 = NoPath \/ p2 = NoPath
           THEN SysExit1
           ELSE pc' = "macro" /\ UNCHANGED pending
    /\ UNCHANGED <<in_project, arg, include_downstream, model_path, macro_path,
                   downstream_models, down_i, down_paths, exit_status, saved,
                   lookup, baseline, last_call>>

\* lines 377-381: create_comparison_macro catches nothing, so a failure to
\* write the macro file raises out of main's try body
CreateMacro ==
    /\ pc = "macro"
    /\ \E written \in BOOLEAN :
        /\ steps' = Append(steps, Step("macro", original_name, written))
        /\ IF written
           THEN /\ macro_path' = MacroFile
                /\ fs' = fs \cup {MacroFile}
                /\ pc' = "checkout"
                /\ UNCHANGED pending
           ELSE /\ Raise
                /\ UNCHANGED <<macro_path, fs>>
    /\ UNCHANGED <<in_project, arg, include_downstream, model_path, main_path,
                   current_path, downstream_models, down_i, down_paths,
                   exit_status, saved, lookup, baseline, last_call>>

\* lines 384-403: copy the project to a temporary directory and check the
\* models directory of main out into it
Checkout ==
    /\ pc = "checkout"
    /\ \E returncode \in {0, 1} :
        /\ steps' = Append(steps, Step("checkout", original_name, returncode = 0))
        /\ IF returncode_fails(returncode)
           THEN SysExit1
           ELSE pc' = "run_main" /\ UNCHANGED pending
    /\ UNCHANGED <<fs, in_project, arg, include_downstream, model_path,
                   main_path, current_path, macro_path, downstream_models,
                   down_i, down_paths, exit_status, saved, lookup, baseline,
                   last_call>>

\* a dbt invocation of the primary model at position at, going to next when
\* it returns status zero
DbtStep(at, next) ==
    /\ pc = at
    /\ \E returncode \in {0, 1} :
        /\ steps' = Append(steps, Step(at, original_name, returncode = 0))
        /\ IF returncode_fails(returncode)
           THEN SysExit1
           ELSE pc' = next /\ UNCHANGED pending
    /\ UNCHANGED <<fs, in_project, arg, include_downstream, model_path,
                   main_path, current_path, macro_path, downstream_models,
                   down_i, down_paths, exit_status, saved, lookup, baseline,
                   last_call>>

\* lines 405-430: dbt run of the baseline temp model
RunMain == DbtStep("run_main", "run_current")

\* lines 432-449: dbt run of the current temp model
RunCurrent == DbtStep("run_current", "compare")

\* save_results: stored is whether the result files could be written (it
\* catches the exception and returns None otherwise)
save_results(persisted, stored, name) ==
    IF stored THEN persisted \cup {name} ELSE persisted

\* lines 451-470: dbt run-operation compare_versions, then save_results
Compare ==
    /\ pc = "compare"
    /\ \E returncode \in {0, 1}, stored \in BOOLEAN :
        /\ IF returncode_fails(returncode)
           THEN /\ steps' = Append(steps, Step("compare", original_name,
                                               returncode = 0))
                /\ SysExit1
                /\ UNCHANGED saved
           ELSE /\ steps' = steps \o
                              <<Step("compare", original_name, returncode = 0),
                                Step("save", original_name, stored)>>
                /\ saved' = save_results(saved, stored, original_name)
                /\ pc' = IF include_downstream THEN "list_downstream"
                                               ELSE "finally"
                /\ UNCHANGED pending
    /\ UNCHANGED <<fs, in_project, arg, include_downstream, model_path,
                   main_path, current_path, macro_path, downstream_models,
                   down_i, down_paths, exit_status, lookup, baseline,
                   last_call>>

\* the lines 'dbt list' can print: distinct model names
DbtLines ==
    {l \in UNION {[1..n -> Names] : n \in 0..MaxDown} :
        \A i \in DOMAIN l, j \in DOMAIN l : l[i] = l[j] => i = j}

\* get_immediate_downstream_models: dbt is what the build tool did
\*   "ok"             both commands return zero; lines is the output of dbt list
\*   "deps_fails", "list_fails"   CalledProcessError, caught: returns []
\*   "not_executable" the tool cannot be started: the exception is not a
\*                    CalledProcessError and nothing catches it
DbtOutcomes == {"ok", "deps_fails", "list_fails", "not_executable"}
get_immediate_downstream_models(dbt, lines, model_name) ==
    CASE dbt = "ok" ->
            [raised |-> FALSE,
             value |-> SelectSeq(lines, LAMBDA m : m # model_name)]
      [] dbt = "not_executable" -> [raised |-> TRUE, value |-> <<>>]
      [] OTHER -> [raised |-> FALSE, value |-> <<>>]

NoDownPaths == [model |-> NoPath, main |-> NoPath, current |-> NoPath,
                macro |-> NoPath]

\* lines 470-478 and 556-557
ListDownstream ==
    /\ pc = "list_downstream"
    /\ \E dbt \in DbtOutcomes, lines \in DbtLines :
        LET r == get_immediate_downstream_models(dbt, lines, original_name) IN
        /\ dbt # "ok" => lines = <<>>
        /\ steps' = Append(steps, Step("list_downstream", original_name,
                                       dbt = "ok"))
        /\ downstream_models' = r.value
        /\ IF r.raised
           THEN Raise /\ UNCHANGED down_i
           ELSE IF r.value = <<>>
           THEN pc' = "finally" /\ UNCHANGED <<pending, down_i>>
           ELSE pc' = "d_find" /\ down_i' = 1 /\ UNCHANGED pending
    /\ UNCHANGED <<fs, in_project, arg, include_downstream, model_path,
                   main_path, current_path, macro_path, down_paths,
                   exit_status, saved, lookup, baseline, last_call>>

\* the downstream model of the current iteration
model == downstream_models[down_i]

\* "continue", and the end of an iteration: the next downstream model, or the
\* end of the try body
NextModel ==
    /\ down_paths' = NoDownPaths
    /\ IF down_i < Len(downstream_models)
       THEN pc' = "d_find" /\ down_i' = down_i + 1
       ELSE pc' = "finally" /\ UNCHANGED down_i

\* lines 479-483
DownFind ==
    /\ pc = "d_find"
    /\ LET a == [sql |-> FALSE, dir |-> <<>>, stem |-> model]
           r == find_model_path(fs, in_project, a)
       IN
       /\ lookup' = [files |-> fs, arg |-> a, result |-> r]
       /\ steps' = Append(steps, Step("d_find", model, r.path # NoPath))
       /\ IF r.path = NoPath
          THEN NextModel
          ELSE /\ down_paths' = [down_paths EXCEPT !.model = r.path]
               /\ pc' = "d_fetch"
               /\ UNCHANGED down_i
    /\ UNCHANGED <<fs, in_project, arg, include_downstream, model_path,
                   main_path, current_path, macro_path, downstream_models,
                   pending, exit_status, saved, baseline, last_call>>

\* lines 485-492: no try statement encloses the call, so what
\* get_main_branch_content raises leaves the loop
DownFetch ==
    /\ pc = "d_fetch"
    /\ \E git \in GitOutcomes :
        LET r == get_main_branch_content(git) IN
        /\ steps' = Append(steps, Step("d_fetch", model, git = "content"))
        /\ baseline' = [git |-> git, raised |-> r.raised, value |-> r.value]
        /\ IF r.raised THEN Raise /\ UNCHANGED <<down_i, down_paths>>
           ELSE IF Falsy(r.value) THEN NextModel /\ UNCHANGED pending
           ELSE pc' = "d_create" /\ UNCHANGED <<pending, down_i, down_paths>>
    /\ UNCHANGED <<fs, in_project, arg, include_downstream, model_path,
                   main_path, current_path, macro_path, downstream_models,
                   exit_status, saved, lookup, last_call>>

\* lines 494-502: the temp models of a downstream model go to the primary
\* model's model_dir; "continue" when either could not be created
DownCreateTempModels ==
    /\ pc = "d_create"
    /\ \E w1 \in BOOLEAN, w2 \in BOOLEAN :
        LET p1 == create_temp_model(w1, <<"main_down_">> \o model, model,
                                    model_dir)
            p2 == create_temp_model(w2, <<"current_down_">> \o model, model,
                                    model_dir)
        IN
        /\ fs' = Created(fs, {p1, p2})
        /\ steps' = Append(steps, Step("d_create", model, w1 /\ w2))
        /\ IF p1 = NoPath \/ p2 = NoPath
           THEN NextModel
           ELSE /\ down_paths' = [down_paths EXCEPT !.main = p1, !.current = p2]
                /\ pc' = "d_macro"
                /\ UNCHANGED down_i
    /\ UNCHANGED <<in_project, arg, include_downstream, model_path, main_path,
                   current_path, macro_path, downstream_models, pending,
                   exit_status, saved, lookup, baseline, last_call>>

\* lines 504-508: the macro of a downstream model is written to the same
\* file as the primary model's
DownCreateMacro ==
    /\ pc = "d_macro"
    /\ \E written \in BOOLEAN :
        /\ steps' = Append(steps, Step("d_macro", model, written))
        /\ IF written
           THEN /\ down_paths' = [down_paths EXCEPT !.macro = MacroFile]
                /\ fs' = fs \cup {MacroFile}
                /\ pc' = "d_run_main"
                /\ UNCHANGED pending
           ELSE /\ Raise
                /\ UNCHANGED <<down_paths, fs>>
    /\ UNCHANGED <<in_project, arg, include_downstream, model_path, main_path,
                   current_path, macro_path, downstream_models, down_i,
                   exit_status, saved, lookup, baseline, last_call>>

\* a dbt invocation inside the inner try (lines 510-546): check=True raises
\* CalledProcessError on a non-zero status; the try has a finally block and
\* no except clause, so the exception goes on after the cleanup
DownDbtStep(at, next) ==
    /\ pc = at
    /\ \E returncode \in {0, 1} :
        /\ steps' = Append(steps, Step(at, model, returncode = 0))
        /\ IF returncode_fails(returncode)
           THEN pc' = "d_cleanup" /\ pending' = "exception"
           ELSE pc' = next /\ UNCHANGED pending
    /\ UNCHANGED <<fs, in_project, arg, include_downstream, model_path,
                   main_path, current_path, macro_path, downstream_models,
                   down_i, down_paths, exit_status, saved, lookup, baseline,
                   last_call>>

\* lines 512-520
DownRunMain == DownDbtStep("d_run_main", "d_run_current")

\* lines 522-530
DownRunCurrent == DownDbtStep("d_run_current", "d_compare")

\* f"{model}_downstream", the name the downstream result is saved under
downstream_name(m) == m \o <<"_downstream">>

\* lines 532-545
DownCompare ==
    /\ pc = "d_compare"
    /\ \E returncode \in {0, 1}, stored \in BOOLEAN :
        /\ steps' = Append(steps, Step("d_compare", model, returncode = 0))
        /\ IF returncode_fails(returncode)
           THEN pending' = "exception" /\ UNCHANGED saved
           ELSE /\ saved' = save_results(saved, stored, downstream_name(model))
                /\ UNCHANGED pending
        /\ pc' = "d_cleanup"
    /\ UNCHANGED <<fs, in_project, arg, include_downstream, model_path,
                   main_path, current_path, macro_path, downstream_models,
                   down_i, down_paths, exit_status, lookup, baseline,
                   last_call>>

\* "if path and path.exists(): os.remove(path)" for each path of ps
Removed(files, ps) == files \ (ps \ {NoPath})

\* lines 547-555: the inner finally block
DownCleanup ==
    /\ pc = "d_cleanup"
    /\ fs' = Removed(fs, {down_paths.main, down_paths.current, down_paths.macro})
    /\ IF pending = "exception"
       THEN pc' = "finally" /\ UNCHANGED <<down_i, down_paths>>
       ELSE NextModel
    /\ UNCHANGED <<in_project, arg, include_downstream, model_path, main_path,
                   current_path, macro_path, downstream_models, pending,
                   exit_status, saved, steps, lookup, baseline, last_call>>

\* the status the process ends with: 0 after a normal return, 1 after
\* sys.exit(1) and after an uncaught exception
ExitStatus(how) == IF how = "none" THEN 0 ELSE 1

\* lines 559-567: the outer finally block, then the end of the process
Finally ==
    /\ pc = "finally"
    /\ fs' = Removed(fs, {main_path, current_path, macro_path})
    /\ pc' = "done"
    /\ exit_status' = ExitStatus(pending)
    /\ UNCHANGED <<in_project, arg, include_downstream, model_path, main_path,
                   current_path, macro_path, downstream_models, down_i,
                   down_paths, pending, saved, steps, lookup, baseline,
                   last_call>>

DiffNext ==
    \/ Locate /\ UNCHANGED ingestVars
    \/ FetchBaseline /\ UNCHANGED ingestVars
    \/ CreateTempModels /\ UNCHANGED ingestVars
    \/ CreateMacro /\ UNCHANGED ingestVars
    \/ Checkout /\ UNCHANGED ingestVars
    \/ RunMain /\ UNCHANGED ingestVars
    \/ RunCurrent /\ UNCHANGED ingestVars
    \/ Compare /\ UNCHANGED ingestVars
    \/ ListDownstream /\ UNCHANGED ingestVars
    \/ DownFind /\ UNCHANGED ingestVars
    \/ DownFetch /\ UNCHANGED ingestVars
    \/ DownCreateTempModels /\ UNCHANGED ingestVars
    \/ DownCreateMacro /\ UNCHANGED ingestVars
    \/ DownRunMain /\ UNCHANGED ingestVars
    \/ DownRunCurrent /\ UNCHANGED ingestVars
    \/ DownCompare /\ UNCHANGED ingestVars
    \/ DownCleanup /\ UNCHANGED ingestVars
    \/ Finally /\ UNCHANGED ingestVars




\* ============================================= email_processor.py: tables

\* A table (a DataFrame, a parsed spreadsheet): its column names and its
\* rows, each row a sequence of cells in the order of the columns.
Table(columns, values) == [columns |-> columns, values |-> values]

NaN == "nan"
Range(seq) == {seq[i] : i \in DOMAIN seq}
IndexOf(seq, x) == CHOOSE i \in DOMAIN seq : seq[i] = x

\* int(time.time()) and strftime("%Y%m%d_%H%M%S") at second t
Stamp(t) == ToString(t)

\* df[name] = value for a column the table lacks
AddColumn(df, name, value) ==
    Table(Append(df.columns, name),
          [r \in DOMAIN df.values |-> Append(df.values[r], value)])

\* df.rename(columns=column_mapping), skipped for an empty mapping; a
\* mapping is a set of pairs <<old name, new name>>
Rename(df, column_mapping) ==
    Table([i \in DOMAIN df.columns |->
              IF \E m \in column_mapping : m[1] = df.columns[i]
              THEN (CHOOSE m \in column_mapping : m[1] = df.columns[i])[2]
              ELSE df.columns[i]],
          df.values)

\* a validation that stops at the first absent column
missing_first_only(required_columns, df) ==
    LET absent == SelectSeq(required_columns,
                            LAMBDA col : col \notin Range(df.columns))
    IN IF absent = <<>> THEN absent ELSE <<absent[1]>>

\* [col for col in required_columns if col not in df.columns]
missing_columns(required_columns, df) ==
    SelectSeq(required_columns, LAMBDA col : col \notin Range(df.columns))

\* the column names that contain 'Date' or 'Day'
DateColumns == {"Effective Date", "First Day of Leave", "Time Off Date"}

\* df[col] = df[col].fillna('') for every date column
FillDates(df) ==
    Table(df.columns,
          [r \in DOMAIN df.values |->
              [c \in DOMAIN df.columns |->
                  IF df.columns[c] \in DateColumns /\ df.values[r][c] = NaN
                  THEN ""
                  ELSE df.values[r][c]]])

\* lines 394-399 and 435-440
AddTimestamp(df, t) ==
    IF "timestamp_unix" \notin Range(df.columns)
    THEN AddColumn(df, "timestamp_unix", Stamp(t))
    ELSE df

LoaRequired == <<"Employee ID", "Effective Date", "First Day of Leave">>
ToRequired == <<"Employee ID", "Time Off Date", "Duration">>

\* what a normalizer did: pd.read_excel raised; or it raised ValueError
\* naming the columns of missing (df is then the table as it was at the
\* raise); or it returned df
NoTable == Table(<<>>, <<>>)
ReadFailed == [raised |-> TRUE, error |-> "read", missing |-> <<>>,
               df |-> NoTable]
Raised(missing, df) == [raised |-> TRUE, error |-> "missing",
                        missing |-> missing, df |-> df]
Returned(df) == [raised |-> FALSE, error |-> "none", missing |-> <<>>,
                 df |-> df]

\* process_loa_file: read is the table in the file, readable whether
\* pd.read_excel can read it
process_loa_file(readable, read, column_mapping, t) ==
    LET df == Rename(read, column_mapping)
        missing == missing_columns(LoaRequired, df)
    IN IF ~readable THEN ReadFailed
       ELSE IF missing # <<>>
       THEN Raised(missing, df)
       ELSE Returned(FillDates(AddTimestamp(df, t)))

\* lines 442-448
ToDefaults(df) ==
    LET s == IF "Status" \notin Range(df.columns)
             THEN AddColumn(df, "Status", "Approved")
             ELSE df
    IN IF "Unit of Time" \notin Range(s.columns) /\ "Duration" \in Range(s.columns)
       THEN AddColumn(s, "Unit of Time", "Hours")
       ELSE s

\* a process_to_file that does not validate the required columns
process_to_file_unvalidated(readable, read, column_mapping, t) ==
    IF ~readable THEN ReadFailed
    ELSE Returned(ToDefaults(AddTimestamp(Rename(read, column_mapping), t)))

\* process_to_file: read is the table in the file, readable whether
\* pd.read_excel can read it
process_to_file(readable, read, column_mapping, t) ==
    LET df == Rename(read, column_mapping)
        missing == missing_columns(ToRequired, df)
    IN IF ~readable THEN ReadFailed
       ELSE IF missing # <<>>
       THEN Raised(missing, df)
       ELSE Returned(ToDefaults(AddTimestamp(df, t)))

\* run(), lines 564-569: the normalizer of a kind
Normalize(kind, readable, read, column_mapping, t) ==
    IF kind = "loa"
    THEN process_loa_file(readable, read, column_mapping, t)
    ELSE process_to_file(readable, read, column_mapping, t)

\* ================================== email_processor.py: append_to_gsheet

Max(a, b) == IF a >= b THEN a ELSE b

\* the cells of new laid over the row old, from column A on
Overlay(new, old) == new \o SubSeq(old, Len(new) + 1, Len(old))

\* worksheet.update(range, values) for a range whose top-left cell is column
\* A of row start_row: the rows of the worksheet afterwards
Update(rows, start_row, values) ==
    LET last == IF values = <<>> THEN Len(rows)
                ELSE Max(Len(rows), start_row + Len(values) - 1)
    IN [i \in 1..last |->
          IF i >= start_row /\ i < start_row + Len(values)
          THEN Overlay(values[i - start_row + 1],
                       IF i <= Len(rows) THEN rows[i] ELSE <<>>)
          ELSE IF i <= Len(rows) THEN rows[i] ELSE <<>>]

\* a start row that is the last populated row itself
next_row_overlapping(existing_data) == Len(existing_data)

\* start_row = len(existing_data) + 1
next_row(existing_data) == Len(existing_data) + 1

\* the rows of df left in the column order of df
Aligned_in_df_order(df, headers) == df.values

\* lines 517-525: the rows of df laid out in the order of headers, NaN in
\* the columns df lacks
Aligned(df, headers) ==
    [r \in DOMAIN df.values |->
        [h \in DOMAIN headers |->
            IF headers[h] \in Range(df.columns)
            THEN df.values[r][IndexOf(df.columns, headers[h])]
            ELSE NaN]]

\* what append_to_gsheet did: whether it returned True, the rows of the
\* worksheet afterwards, and the range and values of its last update
Appended(ok, rows, start_row, end_row, ncols, values) ==
    [ok |-> ok, rows |-> rows, start_row |-> start_row, end_row |-> end_row,
     ncols |-> ncols, values |-> values]
AppendFailed(rows) == Appended(FALSE, rows, 0, 0, 0, <<>>)

\* the outcome of the spreadsheet service during one append_to_gsheet:
\*   "open_fails"           open_by_key, worksheet or get_all_values raises
\*   "header_update_fails"  worksheet.update('A1', [new_headers]) raises
\*   "update_fails"         worksheet.update(range_name, values) raises
ApiOutcomes == {"ok", "open_fails", "header_update_fails", "update_fails"}

\* append_to_gsheet(df, sheet_type) on the worksheet whose rows are
\* existing_data
append_to_gsheet(existing_data, df, api) ==
    IF api = "open_fails" THEN AppendFailed(existing_data)
    ELSE IF existing_data = <<>>
    THEN LET values == <<df.columns>> \o df.values IN
         IF api = "update_fails" THEN AppendFailed(existing_data)
         ELSE Appended(TRUE, Update(existing_data, 1, values), 1,
                       Len(df.values) + 1, Len(df.columns), values)
    ELSE LET headers == existing_data[1]
             missing == SelectSeq(df.columns,
                                  LAMBDA col : col \notin Range(headers))
             new_headers == headers \o missing
             with_headers == IF missing # <<>>
                             THEN Update(existing_data, 1, <<new_headers>>)
                             ELSE existing_data
             start_row == next_row(existing_data)
             values == Aligned(df, new_headers)
         IN
         IF missing # <<>> /\ api = "header_update_fails"
         THEN AppendFailed(existing_data)
         ELSE IF api = "update_fails" THEN AppendFailed(with_headers)
         ELSE Appended(TRUE, Update(with_headers, start_row, values),
                       start_row, start_row + Len(df.values) - 1,
                       Len(new_headers), values)

\* ====================================== email_processor.py: archive_file

\* A file name is a stem and an extension; a path of the archive tree is the
\* directory of a kind and a file name.
FileName(stem, ext) == [stem |-> stem, ext |-> ext]
ArchivePath(kind, name) == [kind |-> kind, stem |-> name.stem, ext |-> name.ext]
NoLocation == [kind |-> "", stem |-> <<>>, ext |-> ""]
NoName == FileName(<<>>, "")

\* the content of an archived data file and of a JSON sidecar
DataFile(table) == [data |-> table, archived_filename |-> NoName]
Sidecar(name) == [data |-> NoTable, archived_filename |-> name]

\* the tree with content written to path, replacing what was there
Put(tree, path, content) ==
    [q \in DOMAIN tree \cup {path} |-> IF q = path THEN content ELSE tree[q]]

EmptyTree == [q \in {} |-> DataFile(NoTable)]

\* an archiver that always keeps the original file name
archived_filename_unchanged(exists, filename, t) == filename

\* lines 210-215: f"{timestamp}_{filename}" when the target exists
archived_filename(exists, filename, t) ==
    IF exists
    THEN FileName(<<Stamp(t), "_">> \o filename.stem, filename.ext)
    ELSE filename

\* what the file system did during one archive_file:
\*   "copy_fails"     shutil.copy2 raises
\*   "sidecar_fails"  writing the metadata file raises
IoOutcomes == {"ok", "copy_fails", "sidecar_fails"}

\* archive_file(file_path, file_type): .location is what it returns (the
\* target path, or None), .tree the archive tree afterwards. In google_drive
\* mode MediaFileUpload is a name local to _init_archive, so the upload
\* raises NameError, which is caught: the function returns None.
archive_file(tree, filename, file_type, payload, t, method, io) ==
    IF method = "local"
    THEN LET target_dir == IF file_type = "loa" THEN "loa" ELSE "to"
             exists == ArchivePath(target_dir, filename) \in DOMAIN tree
             name == archived_filename(exists, filename, t)
             target_path == ArchivePath(target_dir, name)
             copied == Put(tree, target_path, DataFile(payload))
             metadata_path == [target_path EXCEPT !.ext = "json"]
         IN
         IF io = "copy_fails"
         THEN [location |-> NoLocation, tree |-> tree]
         ELSE IF io = "sidecar_fails"
         THEN [location |-> NoLocation, tree |-> copied]
         ELSE [location |-> target_path,
               tree |-> Put(copied, metadata_path, Sidecar(name))]
    ELSE [location |-> NoLocation, tree |-> tree]

\* ================================ email_processor.py: __init__ and run

\* the cell of row r of an incoming table: the dates of the first row are
\* blank
InputCell(column, r) == IF column \in DateColumns /\ r = 1 THEN NaN ELSE "v"
InputTable(columns, n) ==
    Table(columns,
          [r \in 1..n |-> [c \in DOMAIN columns |-> InputCell(columns[c], r)]])

\* filename.lower() of the words file names are made of
\* filename.lower(), word by word
Lower(word) ==
    CASE word = "Time Off" -> "time off"
      [] word = "TIME OFF" -> "time off"
      [] word = "Leave of Absence" -> "leave of absence"
      [] word = "Report" -> "report"
      [] OTHER -> word

\* lines 324-326: the name of an Excel file ends with .xlsx or .xls
IsExcel(filename) == filename.ext \in {"xlsx", "xls"}

\* a classification that tries the time-off pattern first
file_type_of_time_off_first(filename) ==
    IF \E i \in DOMAIN filename.stem : Lower(filename.stem[i]) = "time off"
    THEN "to"
    ELSE IF \E i \in DOMAIN filename.stem :
                Lower(filename.stem[i]) = "leave of absence"
    THEN "loa"
    ELSE None

\* lines 328-339: the kind of an attachment by its file name, None when no
\* pattern matches
file_type_of(filename) ==
    IF \E i \in DOMAIN filename.stem : Lower(filename.stem[i]) = "leave of absence"
    THEN "loa"
    ELSE IF \E i \in DOMAIN filename.stem : Lower(filename.stem[i]) = "time off"
    THEN "to"
    ELSE None

\* the spreadsheet attachments a mailbox can hold
Attachments ==
    { [filename |-> FileName(<<"Time Off">>, "xlsx"),
       table |-> InputTable(ToRequired, 1)],
      [filename |-> FileName(<<"Time Off">>, "xlsx"),
       table |-> InputTable(<<"Employee ID", "Time Off Date">>, 1)],
      [filename |-> FileName(<<"Leave of Absence">>, "xlsx"),
       table |-> InputTable(<<"Emp ID", "Effective Date", "First Day of Leave">>, 1)],
      [filename |-> FileName(<<"Report">>, "xlsx"),
       table |-> InputTable(ToRequired, 1)] }

\* the configurations: the archive method and the column mapping
EmpMapping == {<<"Emp ID", "Employee ID">>}
Configs == [method : {"local", "google_drive", "ftp"},
            column_mapping : {{}, EmpMapping}]

\* a worksheet is empty, or holds a header row and one data row
SheetOptions == {<<>>, << <<"Employee ID", "Status">>, <<"v", "v">> >>}

\* the archive tree is empty, or holds an earlier Time Off file and its sidecar
OldName == FileName(<<"Time Off">>, "xlsx")
OldTree ==
    Put(Put(EmptyTree, ArchivePath("to", OldName),
            DataFile(InputTable(<<"Employee ID">>, 0))),
        ArchivePath("to", FileName(<<"Time Off">>, "json")), Sidecar(OldName))

\* what went wrong in the mailbox during one fetch_email_attachments: the
\* operation op, of message at (0: before or after the loop), raises or
\* answers with a status that is not 'OK'
Failure(op, at, how) == [op |-> op, at |-> at, how |-> how]
NoFailure == Failure("none", 0, "none")

\* the failures of a mailbox of n messages. imaplib raises for a refused
\* connection or login; select, search, fetch, store and copy raise or
\* answer 'NO'; "save" is the writing of the attachment to the temp directory
Failures(n) ==
    {NoFailure}
        \cup {Failure(op, 0, "raises") :
                op \in {"connect", "login", "select", "search", "close"}}
        \cup {Failure(op, 0, "status") : op \in {"select", "search"}}
        \cup {Failure(op, k, how) :
                op \in {"fetch", "store", "copy", "delete"}, k \in 1..n,
                how \in {"raises", "status"}}
        \cup {Failure("save", k, "raises") : k \in 1..n}

\* config['email']: messages are left alone, flagged \Seen, or flagged and
\* moved to the processed folder
MarkSettings == {"none", "seen", "move"}

\* the mailboxes whose messages carry one attachment of parts each, at most
\* n of them matching the search
Mailboxes(parts, n) ==
    {m \in [messages : UNION {[1..k -> parts] : k \in 0..n},
            mark : MarkSettings,
            failure : Failures(n)] :
        /\ m.failure.at <= Len(m.messages)
        /\ m.failure.op = "store" => m.mark # "none"
        /\ m.failure.op \in {"copy", "delete"} => m.mark = "move"}

NoMailbox == [messages |-> <<>>, mark |-> "none", failure |-> NoFailure]

NoAppend == [kind |-> "", before |-> <<>>, df |-> NoTable,
             result |-> AppendFailed(<<>>)]
NoArchive == [kind |-> "", filename |-> NoName, payload |-> NoTable,
              before |-> EmptyTree, at |-> 0, io |-> "ok",
              location |-> NoLocation]
NoNorm == [kind |-> "", readable |-> FALSE, read |-> NoTable,
           column_mapping |-> {}, result |-> Returned(NoTable)]

\* line 586: 'archived': archive_location is not None
archived_always(location) == TRUE
archived_flag(location) == location # NoLocation

\* a result record of run()
Result(filename, type, records, success, archived) ==
    [file |-> filename, type |-> type, records |-> records,
     success |-> success, archived |-> archived]

\* a call run() made for the file at index i of downloaded_files
Call(op, i, ok) == [op |-> op, file |-> i, ok |-> ok]

IngestInit ==
    /\ config \in Configs
    /\ ipc = "load_config"
    /\ temp_dir = "none"
    /\ tmp = {}
    /\ downloaded_files = <<>>
    /\ file_i = 0
    /\ results = <<>>
    /\ \E s \in SheetOptions : sheet = [loa |-> s, to |-> s]
    /\ archive \in {EmptyTree, OldTree}
    /\ now = 0
    /\ calls = <<>>
    /\ last_append = NoAppend
    /\ last_archive = NoArchive
    /\ norm = NoNorm
    /\ mailbox = NoMailbox
    /\ ncalls = 0

\* the clock advances between two iterations of the loop of run(), the
\* only place where it is read
Tick ==
    /\ ipc = "loop"
    /\ now < MaxClock
    /\ now' = now + 1
    /\ UNCHANGED <<config, ipc, temp_dir, tmp, downloaded_files, file_i,
                   results, sheet, archive, calls, last_append, last_archive,
                   norm, ncalls, mailbox>>

\* a step of __init__ at position at: it goes to next, or raises, which ends
\* the process before run() is called
InitStep(at, next, can_succeed) ==
    /\ ipc = at
    /\ \E ok \in BOOLEAN :
        ipc' = IF ok /\ can_succeed THEN next ELSE "crashed"
    /\ UNCHANGED <<config, temp_dir, tmp, downloaded_files, file_i, results,
                   sheet, archive, now, calls, last_append, last_archive,
                   norm, ncalls, mailbox>>

\* line 36: self.config = self._load_config(config_path)
LoadConfig == InitStep("load_config", "mkdtemp", TRUE)

\* lines 38-40: self.temp_dir = Path(tempfile.mkdtemp())
MakeTempDir ==
    /\ ipc = "mkdtemp"
    /\ temp_dir' = "exists"
    /\ ipc' = "init_gsheets"
    /\ UNCHANGED <<config, tmp, downloaded_files, file_i, results, sheet,
                   archive, now, calls, last_append, last_archive, norm,
                   ncalls, mailbox>>

\* lines 42-43: self._init_gsheets() logs and raises again what goes wrong
InitGsheets == InitStep("init_gsheets", "init_archive", TRUE)

\* lines 45-46: self._init_archive() raises for a method that is neither
\* 'local' nor 'google_drive', and when a directory or folder cannot be made
InitArchive ==
    InitStep("init_archive", "fetch", config.method \in {"local", "google_drive"})

\* the attachments of parts that are saved: those whose file name matches a
\* pattern (lines 316-353)
Recognized(parts) ==
    SelectSeq(parts, LAMBDA a : IsExcel(a.filename)
                                  /\ file_type_of(a.filename) # None)

\* the temp directory after the parts were written to it in order: a later
\* file of the same name replaces the earlier one
Written(parts) ==
    {a \in Range(parts) :
        \E i \in DOMAIN parts :
            /\ parts[i] = a
            /\ \A j \in DOMAIN parts :
                  j > i => parts[j].filename # a.filename}

\* the table read from the temp file named filename
ReadTemp(files, filename) ==
    (CHOOSE a \in files : a.filename = filename).table

\* what the message loop did: whether an exception left it, the parts it
\* downloaded in order, the file names it warned about
Looped(raised, downloaded, warned) ==
    [raised |-> raised, saved |-> downloaded, warned |-> warned]

RECURSIVE message_loop(_, _, _, _)
\* lines 296-362, from message k on
message_loop(m, k, downloaded, warned) ==
    IF k > Len(m.messages) THEN Looped(FALSE, downloaded, warned)
    ELSE LET f == m.failure
             here == f.at = k
             part == m.messages[k]
             file_type == file_type_of(part.filename)
             keeps == IsExcel(part.filename) /\ file_type # None
             warns == IsExcel(part.filename) /\ file_type = None
             downloaded_k == IF keeps THEN Append(downloaded, part)
                             ELSE downloaded
             warned_k == IF warns THEN warned \cup {part.filename}
                         ELSE warned
         IN
         IF here /\ f.op = "fetch"
         THEN IF f.how = "raises" THEN Looped(TRUE, downloaded, warned)
              ELSE message_loop(m, k + 1, downloaded, warned)
         ELSE IF here /\ f.op = "save" /\ keeps
         THEN Looped(TRUE, downloaded, warned_k)
         ELSE IF here /\ f.op \in {"store", "copy", "delete"}
                   /\ f.how = "raises"
         THEN Looped(TRUE, downloaded_k, warned_k)
         ELSE message_loop(m, k + 1, downloaded_k, warned_k)

\* the failure of mailbox m ends the loop at its message: an exception
\* leaves the loop (the write of the attachment is only made for a part that
\* is kept)
EndsLoop(m) ==
    LET f == m.failure IN
    /\ f.at >= 1
    /\ \/ f.op \in {"fetch", "store", "copy", "delete"} /\ f.how = "raises"
       \/ /\ f.op = "save"
          /\ IsExcel(m.messages[f.at].filename)
          /\ file_type_of(m.messages[f.at].filename) # None

\* lines 355-362: the flags message k of mailbox m carries after the fetch:
\* "seen" and "deleted" are the two mail.store, "copied" is mail.copy. A
\* message whose fetch answers 'NO' is skipped before it is marked; the
\* answers of store and copy are not looked at.
flags(m, k) ==
    LET f == m.failure
        all == IF m.mark = "move" THEN {"seen", "copied", "deleted"}
               ELSE {"seen"}
    IN
    IF m.mark = "none" THEN {}
    ELSE IF f.at = 0 /\ f.op \in {"connect", "login", "select", "search"}
    THEN {}
    ELSE IF f.at >= 1 /\ f.at < k /\ EndsLoop(m) THEN {}
    ELSE IF f.at = k /\ (f.op = "fetch" \/ (f.op = "save" /\ EndsLoop(m)))
    THEN {}
    ELSE IF f.at = k /\ f.op = "store"
    THEN IF f.how = "raises" THEN {} ELSE all \ {"seen"}
    ELSE IF f.at = k /\ f.op = "copy"
    THEN IF f.how = "raises" THEN {"seen"} ELSE all \ {"copied"}
    ELSE IF f.at = k /\ f.op = "delete" THEN all \ {"deleted"}
    ELSE all

\* the records of downloaded_files for the downloaded parts
Records(downloaded) ==
    [i \in DOMAIN downloaded |->
        [filename |-> downloaded[i].filename,
         type |-> file_type_of(downloaded[i].filename)]]

\* a fetch that returns what it downloaded before an exception
fetch_email_attachments_partial(m) ==
    LET l == message_loop(m, 1, <<>>, {}) IN
    [files |-> Records(l.saved), tmp |-> Written(l.saved), warned |-> l.warned]

\* fetch_email_attachments() on mailbox m: .files is the list it returns,
\* .tmp the files of the temp directory afterwards, .warned the file names
\* of the warnings it logged. It raises nothing: line 370 catches everything.
fetch_email_attachments(m) ==
    LET f == m.failure
        l == message_loop(m, 1, <<>>, {})
    IN
    IF f.at = 0 /\ f.op \in {"connect", "login", "select", "search"}
    THEN [files |-> <<>>, tmp |-> {}, warned |-> {}]
    ELSE IF l.raised \/ f.op = "close"
    THEN [files |-> <<>>, tmp |-> Written(l.saved), warned |-> l.warned]
    ELSE [files |-> Records(l.saved), tmp |-> Written(l.saved),
          warned |-> l.warned]

\* lines 543-548 of run(): fetch the attachments of mailbox m and return at
\* once when there is none; kept is what is remembered of the mailbox
FetchFrom(m, kept) ==
    /\ ipc = "fetch"
    /\ LET r == fetch_email_attachments(m) IN
        /\ tmp' = r.tmp
        /\ downloaded_files' = r.files
        /\ IF r.files = <<>>
           THEN ipc' = "finally" /\ UNCHANGED file_i
           ELSE ipc' = "loop" /\ file_i' = 1
    /\ mailbox' = kept
    /\ UNCHANGED <<config, temp_dir, results, sheet, archive, now, calls,
                   last_append, last_archive, norm, ncalls>>

\* the fetch of a run, from any mailbox
Fetch ==
    /\ ipc = "fetch"
    /\ \E m \in Mailboxes(Attachments, MaxFiles) : FetchFrom(m, NoMailbox)

\* lines 553-599: one iteration of the loop of run()
ProcessFile ==
    /\ ipc = "loop"
    /\ \E readable \in BOOLEAN, api \in ApiOutcomes, io \in IoOutcomes :
        LET file_info == downloaded_files[file_i]
            filename == file_info.filename
            file_type == file_info.type
            read == ReadTemp(tmp, filename)
            n == Normalize(file_type, readable, read, config.column_mapping,
                           now)
            called == [kind |-> file_type, readable |-> readable,
                       read |-> read,
                       column_mapping |-> config.column_mapping, result |-> n]
            a == append_to_gsheet(sheet[file_type], n.df, api)
            r == archive_file(archive, filename, file_type, read, now,
                              config.method, io)
            failed == Result(filename, file_type, 0, FALSE, FALSE)
        IN
        /\ norm' = called
        /\ IF n.raised
           THEN /\ results' = Append(results, failed)
                /\ calls' = Append(calls, Call("normalize", file_i, FALSE))
                /\ api = "ok" /\ io = "ok"
                /\ UNCHANGED <<sheet, archive, last_append, last_archive>>
           ELSE
             /\ sheet' = [sheet EXCEPT ![file_type] = a.rows]
             /\ last_append' = [kind |-> file_type, before |-> sheet[file_type],
                                df |-> n.df, result |-> a]
             /\ IF a.ok
                THEN /\ archive' = r.tree
                     /\ last_archive' = [kind |-> file_type,
                                         filename |-> filename,
                                         payload |-> read,
                                         before |-> archive, at |-> now,
                                         io |-> io,
                                         location |-> r.location]
                     /\ results' = Append(results,
                            Result(filename, file_type, Len(n.df.values), TRUE,
                                   archived_flag(r.location)))
                     /\ calls' = calls \o
                            << Call("normalize", file_i, TRUE),
                               Call("append", file_i, TRUE),
                               Call("archive", file_i, r.location # NoLocation) >>
                ELSE /\ io = "ok"
                     /\ results' = Append(results,
                            Result(filename, file_type, Len(n.df.values), FALSE,
                                   FALSE))
                     /\ calls' = calls \o
                            << Call("normalize", file_i, TRUE),
                               Call("append", file_i, FALSE) >>
                     /\ UNCHANGED <<archive, last_archive>>
    /\ IF file_i < Len(downloaded_files)
       THEN file_i' = file_i + 1 /\ UNCHANGED ipc
       ELSE ipc' = "finally" /\ UNCHANGED file_i
    /\ UNCHANGED <<config, temp_dir, tmp, downloaded_files, now, ncalls, mailbox>>

\* lines 613-620: the finally block of run() removes the temp directory
RunFinally ==
    /\ ipc = "finally"
    /\ temp_dir' = "removed"
    /\ tmp' = {}
    /\ ipc' = "done"
    /\ UNCHANGED <<config, downloaded_files, file_i, results, sheet, archive,
                   now, calls, last_append, last_archive, norm, ncalls,
                   mailbox>>

IngestNext ==
    \/ Tick /\ UNCHANGED diffVars
    \/ LoadConfig /\ UNCHANGED diffVars
    \/ MakeTempDir /\ UNCHANGED diffVars
    \/ InitGsheets /\ UNCHANGED diffVars
    \/ InitArchive /\ UNCHANGED diffVars
    \/ Fetch /\ UNCHANGED diffVars
    \/ ProcessFile /\ UNCHANGED diffVars
    \/ RunFinally /\ UNCHANGED diffVars

\* the state of a script that is not run
DiffQuiet ==
    /\ fs = {}
    /\ in_project = FALSE
    /\ arg = [sql |-> FALSE, dir |-> <<>>, stem |-> <<>>]
    /\ include_downstream = FALSE
    /\ pc = "idle"
    /\ model_path = NoPath
    /\ main_path = NoPath
    /\ current_path = NoPath
    /\ macro_path = NoPath
    /\ downstream_models = <<>>
    /\ down_i = 0
    /\ down_paths = NoDownPaths
    /\ pending = "none"
    /\ exit_status = None
    /\ saved = {}
    /\ steps = <<>>
    /\ lookup = NoLookup
    /\ baseline = NoBaseline

\* the model-diff tool at rest
DiffIdle == DiffQuiet /\ last_call = NoCall

IngestIdle ==
    /\ config = [method |-> "local", column_mapping |-> {}]
    /\ ipc = "idle"
    /\ temp_dir = "none"
    /\ tmp = {}
    /\ downloaded_files = <<>>
    /\ file_i = 0
    /\ results = <<>>
    /\ sheet = [loa |-> <<>>, to |-> <<>>]
    /\ archive = EmptyTree
    /\ now = 0
    /\ calls = <<>>
    /\ last_append = NoAppend
    /\ last_archive = NoArchive
    /\ norm = NoNorm
    /\ mailbox = NoMailbox
    /\ ncalls = 0

\* the model-diff tool: main()
InitDiff == DiffInit /\ IngestIdle
SpecDiff == InitDiff /\ [][DiffNext]_vars

\* the mailbox-ingest pipeline: __init__ and run()
InitIngest == DiffIdle /\ IngestInit
SpecIngest == InitIngest /\ [][IngestNext]_vars

\* ==================================== sequences of calls of one function

\* the clock advances between two calls
ClockTick ==
    /\ ipc = "idle"
    /\ now < MaxClock
    /\ now' = now + 1
    /\ UNCHANGED <<config, ipc, temp_dir, tmp, downloaded_files, file_i,
                   results, sheet, archive, calls, last_append, last_archive,
                   norm, ncalls, mailbox>>

\* the columns an incoming file can have, in the order of the file
ColumnUniverse == <<"Employee ID", "Emp ID", "Effective Date",
                    "First Day of Leave", "Time Off Date", "Duration",
                    "Status", "timestamp_unix">>
ColumnLayouts ==
    {SelectSeq(ColumnUniverse, LAMBDA c : c \in chosen) :
        chosen \in SUBSET Range(ColumnUniverse)}

\* the column mappings of the configurations: none, one that renames a raw
\* column to a required one, one that renames a required column away
Mappings == {{}, EmpMapping, {<<"Duration", "Hours">>, <<"Emp ID", "Employee ID">>}}

\* the result of a call that has not been made yet
Pending == [raised |-> FALSE, error |-> "pending", missing |-> <<>>,
            df |-> NoTable]

\* the file, the configuration and the clock of one call of a normalizer
InitNormalize ==
    /\ DiffIdle
    /\ config = [method |-> "local", column_mapping |-> {}]
    /\ ipc = "idle"
    /\ temp_dir = "none"
    /\ tmp = {}
    /\ downloaded_files = <<>>
    /\ file_i = 0
    /\ results = <<>>
    /\ sheet = [loa |-> <<>>, to |-> <<>>]
    /\ archive = EmptyTree
    /\ now \in 0..MaxClock
    /\ calls = <<>>
    /\ last_append = NoAppend
    /\ last_archive = NoArchive
    /\ \E kind \in {"loa", "to"}, readable \in BOOLEAN,
          columns \in ColumnLayouts, n \in 0..MaxRows,
          column_mapping \in Mappings :
        norm = [kind |-> kind, readable |-> readable,
                read |-> InputTable(columns, n),
                column_mapping |-> column_mapping, result |-> Pending]
    /\ mailbox = NoMailbox
    /\ ncalls = 0

\* the call of process_loa_file or process_to_file on that file
NormalizeCall ==
    /\ ipc = "idle"
    /\ norm.result = Pending
    /\ norm' = [norm EXCEPT !.result =
                    Normalize(norm.kind, norm.readable, norm.read,
                              norm.column_mapping, now)]
    /\ UNCHANGED <<config, ipc, temp_dir, tmp, downloaded_files, file_i,
                   results, sheet, archive, now, calls, last_append,
                   last_archive, ncalls, mailbox>>

NormalizeNext == NormalizeCall /\ UNCHANGED diffVars

\* the normalizers as functions of the table, the mapping and the kind
SpecNormalize == InitNormalize /\ [][NormalizeNext]_vars

\* the attachments of the messages of a mailbox: names that match one
\* pattern, in either case, both patterns or none, and a file that is not
\* an Excel file, and a second Time Off file of the same name with another
\* payload
MailParts ==
    {[filename |-> FileName(stem, ext), table |-> InputTable(ToRequired, 1)] :
        stem \in {<<"Time Off">>, <<"Leave of Absence">>,
                  <<"Time Off", "Leave of Absence">>, <<"Report">>},
        ext \in {"xlsx"}}
    \cup {[filename |-> FileName(<<"TIME OFF">>, "xls"),
            table |-> InputTable(ToRequired, 1)],
           [filename |-> FileName(<<"Time Off">>, "pdf"),
            table |-> InputTable(ToRequired, 1)],
           [filename |-> FileName(<<"Time Off">>, "xlsx"),
            table |-> InputTable(ToRequired, 0)]}

\* run() is about to fetch from some mailbox
InitFetch ==
    /\ DiffIdle
    /\ config = [method |-> "local", column_mapping |-> {}]
    /\ ipc = "fetch"
    /\ temp_dir = "exists"
    /\ tmp = {}
    /\ downloaded_files = <<>>
    /\ file_i = 0
    /\ results = <<>>
    /\ sheet = [loa |-> <<>>, to |-> <<>>]
    /\ archive = EmptyTree
    /\ now = 0
    /\ calls = <<>>
    /\ last_append = NoAppend
    /\ last_archive = NoArchive
    /\ norm = NoNorm
    /\ mailbox \in Mailboxes(MailParts, MaxFiles)
    /\ ncalls = 0

\* the fetch from that mailbox
FetchMailbox == FetchFrom(mailbox, mailbox)

FetchNext ==
    \/ FetchMailbox /\ UNCHANGED diffVars
    \/ RunFinally /\ UNCHANGED diffVars

\* fetch_email_attachments as a function of the mailbox, and what run()
\* does when it returns nothing
SpecFetch == InitFetch /\ [][FetchNext]_vars

InitCalls == DiffIdle /\ IngestIdle

\* the file names archive_file is called with
ArchiveNames == {FileName(<<"Time Off">>, "xlsx"), FileName(<<"Time Off">>, "xls"),
                 FileName(<<"Leave of Absence">>, "xlsx")}

\* one call of archive_file in local mode; the payload of call k is a table
\* of k rows, so that the files of different calls differ
ArchiveCall ==
    /\ ipc = "idle"
    /\ ncalls < MaxCalls
    /\ \E filename \in ArchiveNames, io \in IoOutcomes :
        LET file_type == file_type_of(filename)
            payload == InputTable(<<"Employee ID">>, ncalls + 1)
            r == archive_file(archive, filename, file_type, payload, now,
                              config.method, io)
        IN
        /\ archive' = r.tree
        /\ last_archive' = [kind |-> file_type, filename |-> filename,
                            payload |-> payload, before |-> archive,
                            at |-> now, io |-> io,
                            location |-> r.location]
    /\ ncalls' = ncalls + 1
    /\ UNCHANGED <<config, ipc, temp_dir, tmp, downloaded_files, file_i,
                   results, sheet, now, calls, last_append, norm, mailbox>>

ArchiveNext ==
    \/ ArchiveCall /\ UNCHANGED diffVars
    \/ ClockTick /\ UNCHANGED diffVars

\* any sequence of calls of archive_file on one archive tree
SpecArchive == InitCalls /\ [][ArchiveNext]_vars

\* the tables append_to_gsheet is called with
AppendLayouts == {<<"Employee ID", "Status">>, <<"Status", "Employee ID">>,
                  <<"Employee ID", "Duration", "Status">>, <<"Duration">>}

\* the most calls of append_to_gsheet in a sequence of calls
MaxAppends == 2

\* one call of append_to_gsheet on the Time Off worksheet
AppendCall ==
    /\ ipc = "idle"
    /\ ncalls < MaxAppends
    /\ \E columns \in AppendLayouts, n \in 0..MaxRows, api \in ApiOutcomes :
        LET df == InputTable(columns, n)
            a == append_to_gsheet(sheet["to"], df, api)
        IN
        /\ sheet' = [sheet EXCEPT !["to"] = a.rows]
        /\ last_append' = [kind |-> "to", before |-> sheet["to"], df |-> df,
                           result |-> a]
    /\ ncalls' = ncalls + 1
    /\ UNCHANGED <<config, ipc, temp_dir, tmp, downloaded_files, file_i,
                   results, archive, now, calls, last_archive, norm, mailbox>>

AppendNext == AppendCall /\ UNCHANGED diffVars

\* any sequence of calls of append_to_gsheet on one worksheet
SpecAppend == InitCalls /\ [][AppendNext]_vars

\* ------------------------------------------------- save_results on its own

\* lines 265, 268, 271: the literal markers save_results looks for
StartMarker == "MODEL COMPARISON RESULTS START"
DataMarker == "DATA COMPARISON:"
EndMarker == "MODEL COMPARISON RESULTS END"

\* A line of the output is a sequence of pieces: a marker, ":", "|", a blank
\* " " or a word. The lines the compare step can print: a schema line with
\* a leading blank, three table rows, a row of blank cells, a line with both
\* ':' and '|', the three markers, a start marker behind a time stamp, a
\* line with two markers.
OutputLines ==
    {<<" ", "k", ":", "v">>,
     <<"|", "a", "|", "b", "|">>,
     <<"|", "1", "|", "2", "|">>,
     <<"|", "1", "|", "2", "|", "3", "|">>,
     <<"|", " ", "|">>,
     <<"k", ":", "v", "|", "w">>,
     <<StartMarker>>, <<DataMarker>>, <<EndMarker>>,
     <<"t", ":", StartMarker>>, <<StartMarker, "|", EndMarker>>}

\* the most lines of the output of the compare step
MaxLines == 4

\* output.splitlines() of every output of at most MaxLines lines
Outputs == UNION {[1..n -> OutputLines] : n \in 0..MaxLines}

\* 'piece in line' of a marker, ':' or '|' (the data marker ends in ':')
In(piece, line) ==
    \E i \in DOMAIN line :
        \/ line[i] = piece
        \/ piece = ":" /\ line[i] = DataMarker

\* str.strip(): the cell without its leading and trailing blanks
strip(line) ==
    LET inked == {i \in DOMAIN line : line[i] # " "} IN
    IF inked = {} THEN <<>>
    ELSE SubSeq(line, CHOOSE i \in inked : \A j \in inked : i <= j,
                      CHOOSE i \in inked : \A j \in inked : j <= i)

RECURSIVE parse_output(_, _, _, _, _, _)

\* the loop over the lines if the end marker did not end it
parse_output_past_end(lines, i, in_results, in_data, schema, data) ==
    IF i > Len(lines)
    THEN [schema_changes |-> schema, data_comparison |-> data]
    ELSE
    LET line == lines[i] IN
    IF In(StartMarker, line)
    THEN parse_output(lines, i + 1, TRUE, in_data, schema, data)
    ELSE IF In(DataMarker, line)
    THEN parse_output(lines, i + 1, in_results, TRUE, schema, data)
    ELSE IF In(EndMarker, line)
    THEN parse_output(lines, i + 1, in_results, in_data, schema, data)
    ELSE IF in_results /\ in_data /\ In("|", line)
    THEN parse_output(lines, i + 1, in_results, in_data, schema,
                      Append(data, line))
    ELSE IF in_results /\ ~in_data /\ In(":", line)
    THEN parse_output(lines, i + 1, in_results, in_data,
                      Append(schema, line), data)
    ELSE parse_output(lines, i + 1, in_results, in_data, schema, data)

\* lines 264-279: the loop over the lines, from line i on, that sorts the
\* lines into schema_changes and data_comparison
parse_output(lines, i, in_results, in_data, schema_changes, data_comparison) ==
    IF i > Len(lines)
    THEN [schema_changes |-> schema_changes,
          data_comparison |-> data_comparison]
    ELSE
    LET line == lines[i] IN
    IF In(StartMarker, line)
    THEN parse_output(lines, i + 1, TRUE, in_data, schema_changes,
                      data_comparison)
    ELSE IF In(DataMarker, line)
    THEN parse_output(lines, i + 1, in_results, TRUE, schema_changes,
                      data_comparison)
    ELSE IF In(EndMarker, line)
    THEN [schema_changes |-> schema_changes,
          data_comparison |-> data_comparison]
    ELSE IF in_results /\ in_data /\ In("|", line)
    THEN parse_output(lines, i + 1, in_results, in_data, schema_changes,
                      Append(data_comparison, line))
    ELSE IF in_results /\ ~in_data /\ In(":", line)
    THEN parse_output(lines, i + 1, in_results, in_data,
                      Append(schema_changes, line), data_comparison)
    ELSE parse_output(lines, i + 1, in_results, in_data, schema_changes,
                      data_comparison)

\* line.split('|'): the pieces between the bars
RECURSIVE split(_)
split(line) ==
    LET bars == {i \in DOMAIN line : line[i] = "|"} IN
    IF bars = {} THEN <<line>>
    ELSE LET b == CHOOSE i \in bars : \A j \in bars : i <= j IN
         <<SubSeq(line, 1, b - 1)>> \o split(SubSeq(line, b + 1, Len(line)))

\* line 297: the stripped cells of a line that are not empty
Cells(line) ==
    LET all == split(line)
        kept == {i \in DOMAIN all : strip(all[i]) # <<>>}
        cell[i \in 0..Len(all)] ==
            IF i = 0 THEN <<>>
            ELSE IF i \in kept THEN Append(cell[i - 1], strip(all[i]))
            ELSE cell[i - 1]
    IN cell[Len(all)]

\* lines 293-299: the rows of the data section that have a cell
table_data(data_comparison) ==
    LET row[i \in 0..Len(data_comparison)] ==
            IF i = 0 THEN <<>>
            ELSE IF Cells(data_comparison[i]) # <<>>
            THEN Append(row[i - 1], Cells(data_comparison[i]))
            ELSE row[i - 1]
    IN row[Len(data_comparison)]

\* the result directory with no file in it
NoFiles == <<>>

\* the files save_results would leave if one row were enough for the table
write_results_one_row(output, failing) ==
    LET parsed == parse_output(output, 1, FALSE, FALSE, <<>>, <<>>)
        table == table_data(parsed.data_comparison)
        txt == [f \in {"txt"} |-> parsed]
        csv == txt @@ [f \in {"csv"} |->
                          [header |-> Head(table), rows |-> Tail(table)]]
        raw(files) == files @@ [f \in {"raw"} |-> output]
    IN
    IF failing = "txt" THEN [returned |-> FALSE, files |-> NoFiles]
    ELSE IF parsed.data_comparison # <<>> /\ Len(table) >= 1
    THEN IF failing = "csv"
         THEN [returned |-> FALSE, files |-> txt]
         ELSE IF failing = "raw" THEN [returned |-> FALSE, files |-> csv]
         ELSE [returned |-> TRUE, files |-> raw(csv)]
    ELSE IF failing = "raw" THEN [returned |-> FALSE, files |-> txt]
    ELSE [returned |-> TRUE, files |-> raw(txt)]

\* lines 259-321: the files save_results leaves in the result directory (by
\* name, with their content) and whether it returns the directory; failing
\* is the file whose write raises
write_results(output, failing) ==
    LET parsed == parse_output(output, 1, FALSE, FALSE, <<>>, <<>>)
        table == table_data(parsed.data_comparison)
        txt == [f \in {"txt"} |-> parsed]
        csv == txt @@ [f \in {"csv"} |->
                          [header |-> Head(table), rows |-> Tail(table)]]
        raw(files) == files @@ [f \in {"raw"} |-> output]
    IN
    IF failing = "txt" THEN [returned |-> FALSE, files |-> NoFiles]
    ELSE IF parsed.data_comparison # <<>> /\ Len(table) >= 2
    THEN IF failing = "csv"
         THEN [returned |-> FALSE, files |-> txt]
         ELSE IF failing = "raw" THEN [returned |-> FALSE, files |-> csv]
         ELSE [returned |-> TRUE, files |-> raw(csv)]
    ELSE IF failing = "raw" THEN [returned |-> FALSE, files |-> txt]
    ELSE [returned |-> TRUE, files |-> raw(txt)]

\* the output save_results is called with
InitSave ==
    /\ DiffQuiet
    /\ IngestIdle
    /\ \E output \in Outputs :
        last_call = [fn |-> "save_results", output |-> output,
                     result |-> Pending]

\* the call of save_results on that output
SaveCall ==
    /\ pc = "idle"
    /\ last_call.fn = "save_results"
    /\ last_call.result = Pending
    /\ \E failing \in {"none", "txt", "csv", "raw"} :
        last_call' = [last_call EXCEPT !.result =
                         write_results(last_call.output, failing)]
    /\ UNCHANGED <<fs, in_project, arg, include_downstream, pc, model_path,
                   main_path, current_path, macro_path, downstream_models,
                   down_i, down_paths, pending, exit_status, saved, steps,
                   lookup, baseline>>

SaveNext == SaveCall /\ UNCHANGED ingestVars

\* save_results called once on any output
SpecSave == InitSave /\ [][SaveNext]_vars

\* ------------------------------------------ the comparison macro on its own

\* the most columns of a relation
MaxCols == 2

\* the columns adapter.get_columns_in_relation can report
Columns == [name : {"id", "ID", "x", "y"}, dtype : {"int", "text"}]

\* the Jinja filter 'lower' on a column name
lower(name) == IF name = "ID" THEN "id" ELSE name

\* the column lists of a relation: no two columns have the same name in
\* lower case
ColumnLists ==
    {cols \in UNION {[1..n -> Columns] : n \in 0..MaxCols} :
        \A i, j \in DOMAIN cols :
            i # j => lower(cols[i].name) # lower(cols[j].name)}

\* Jinja scoping: a {% set %} in the body of a {% for %} is local to the
\* loop; when the loop has ended the variable has the value it had before
AfterFor(before, set_in_loop) == before

\* lines 139-146: the inner loop over cols2 for one col1, from col2 number j
\* on; it appends to the lists (a {% do %} on a list outlives the loop)
RECURSIVE inner_for(_, _, _, _, _)
inner_for(col1, cols2, j, common_cols, type_changes) ==
    IF j > Len(cols2)
    THEN [common_cols |-> common_cols, type_changes |-> type_changes]
    ELSE
    LET col2 == cols2[j] IN
    IF lower(col1.name) = lower(col2.name)
    THEN inner_for(col1, cols2, j + 1, Append(common_cols, col1.name),
                   IF col1.dtype # col2.dtype
                   THEN Append(type_changes,
                               [column |-> col1.name,
                                main_type |-> col1.dtype,
                                current_type |-> col2.dtype])
                   ELSE type_changes)
    ELSE inner_for(col1, cols2, j + 1, common_cols, type_changes)

\* lines 133-151: the loop over cols1, from col1 number i on
RECURSIVE first_for(_, _, _, _, _, _)
first_for(cols1, cols2, i, common_cols, version1_only_cols, type_changes) ==
    IF i > Len(cols1)
    THEN [common_cols |-> common_cols,
          version1_only_cols |-> version1_only_cols,
          type_changes |-> type_changes]
    ELSE
    LET col1 == cols1[i]
        inner == inner_for(col1, cols2, 1, common_cols, type_changes)
        col_in_version2 ==
            AfterFor(FALSE, \E j \in DOMAIN cols2 :
                                lower(col1.name) = lower(cols2[j].name))
    IN
    first_for(cols1, cols2, i + 1, inner.common_cols,
              IF ~col_in_version2
              THEN Append(version1_only_cols, col1.name)
              ELSE version1_only_cols,
              inner.type_changes)

\* lines 153-164: the loop over cols2, from col2 number j on
RECURSIVE second_for(_, _, _, _)
second_for(cols1, cols2, j, version2_only_cols) ==
    IF j > Len(cols2) THEN version2_only_cols
    ELSE
    LET col2 == cols2[j]
        col_in_version1 ==
            AfterFor(FALSE, \E i \in DOMAIN cols1 :
                                lower(col2.name) = lower(cols1[i].name))
    IN
    second_for(cols1, cols2, j + 1,
               IF ~col_in_version1
               THEN Append(version2_only_cols, col2.name)
               ELSE version2_only_cols)

\* lines 121-164: the column lists the macro compare_versions computes for
\* the relations of model1_name and model2_name
compare_versions(cols1, cols2) ==
    LET first == first_for(cols1, cols2, 1, <<>>, <<>>, <<>>) IN
    [common_cols |-> first.common_cols,
     version1_only_cols |-> first.version1_only_cols,
     version2_only_cols |-> second_for(cols1, cols2, 1, <<>>),
     type_changes |-> first.type_changes]

\* the relations the macro is run on
InitMacro ==
    /\ DiffQuiet
    /\ IngestIdle
    /\ \E cols1 \in ColumnLists, cols2 \in ColumnLists :
        last_call = [fn |-> "compare_versions", cols1 |-> cols1,
                     cols2 |-> cols2, result |-> Pending]

\* the run of the macro on these relations
MacroCall ==
    /\ pc = "idle"
    /\ last_call.fn = "compare_versions"
    /\ last_call.result = Pending
    /\ last_call' = [last_call EXCEPT !.result =
                        compare_versions(last_call.cols1, last_call.cols2)]
    /\ UNCHANGED <<fs, in_project, arg, include_downstream, pc, model_path,
                   main_path, current_path, macro_path, downstream_models,
                   down_i, down_paths, pending, exit_status, saved, steps,
                   lookup, baseline>>

MacroNext == MacroCall /\ UNCHANGED ingestVars

\* the macro run once on any two relations
SpecMacro == InitMacro /\ [][MacroNext]_vars

\* ------------------------------------------------ claims: model-diff tool

\* the files a run generated: everything that is not a model of the project
Generated(files) == files \ ModelFiles

\* C1: when main() has ended, on whatever path, none of the temporary files
\* it generated (temp models of the primary and of the downstream models, the
\* macro file) exists any more.
C1_TempFilesRemovedAtExit == pc = "done" => Generated(fs) = {}

\* name is the end of the file name p.stem
IsSuffixOf(name, stem) ==
    \E k \in 0..Len(stem) : SubSeq(stem, k + 1, Len(stem)) = name

\* the files of the models directory that a bare name matches
Candidates(files, name) ==
    {p \in files : p.dir[1] = "models" /\ IsSuffixOf(name, p.stem)}

\* C5: find_model_path with a bare name inside a project tree returns the
\* file when exactly one file matches, None (not found) when none matches,
\* and None (ambiguous) with every candidate reported when several match.
C5_BareNameResolution ==
    (lookup.result.outcome # "none" /\ ~lookup.arg.sql /\ in_project) =>
        LET c == Candidates(lookup.files, lookup.arg.stem)
            r == lookup.result
        IN
        /\ Cardinality(c) = 1 => r.outcome = "found" /\ r.path \in c
        /\ c = {} => r.outcome = "not_found" /\ r.path = NoPath
        /\ Cardinality(c) > 1 =>
              r.outcome = "ambiguous" /\ r.path = NoPath /\ r.reported = c

\* C5 witness: a bare name with several candidates was looked up
C5_Witness ==
    /\ in_project
    /\ ~lookup.arg.sql
    /\ lookup.result.outcome = "ambiguous"
    /\ Cardinality(Candidates(lookup.files, lookup.arg.stem)) > 1

\* the external steps of the primary model that claim C6 lists
PrimarySteps == {"locate", "fetch", "create_temps", "macro", "run_main",
                 "run_current", "compare"}
PrimaryFailure ==
    \E i \in DOMAIN steps : steps[i].op \in PrimarySteps /\ ~steps[i].ok

\* C6: when locating the model, fetching the baseline, creating a temp model
\* or the macro, or a dbt invocation of the primary model fails, main() ends
\* with exit status 1 and no comparison result has been persisted.
C6_FailureExitsWithStatus1 ==
    (pc = "done" /\ PrimaryFailure) => (exit_status = 1 /\ saved = {})

\* C6 witness: a run that ended after the current-branch dbt run failed
C6_Witness ==
    /\ pc = "done"
    /\ Len(steps) >= 1
    /\ steps[Len(steps)].op = "run_current"
    /\ ~steps[Len(steps)].ok
    /\ exit_status = 1

\* downstream model i was attempted: its iteration began
Attempted(i) ==
    \E j \in DOMAIN steps :
        steps[j].op = "d_find" /\ steps[j].model = downstream_models[i]

\* a failure of the kinds claim C8 lists, in the iteration of a downstream model
DownstreamFailure ==
    \E j \in DOMAIN steps :
        steps[j].op \in {"d_fetch", "d_create", "d_run_main", "d_run_current",
                         "d_compare"} /\ ~steps[j].ok

\* C8: a failure while comparing one downstream model (baseline unavailable,
\* temp model not created, dbt status non-zero) does not keep the remaining
\* downstream models from being attempted.
C8_DownstreamFailureIsolated ==
    (pc = "done" /\ DownstreamFailure
        /\ ~\E j \in DOMAIN steps : steps[j].op = "d_macro" /\ ~steps[j].ok)
    => \A i \in 1..Len(downstream_models) : Attempted(i)

\* ------------------------------------------------ claims: ingest pipeline

\* the column names of a table once the renames of a mapping are applied
RenamedColumns(read, column_mapping) ==
    {IF \E m \in column_mapping : m[1] = c
     THEN (CHOOSE m \in column_mapping : m[1] = c)[2]
     ELSE c : c \in Range(read.columns)}

\* C2: in run(), append_to_gsheet is called for a file only after the
\* normalizer of its kind returned without raising, and archive_file only
\* after append_to_gsheet returned success; a 'to' file that lacks column
\* Duration is neither appended nor archived.
C2_AppendAfterValidationArchiveAfterAppend ==
    /\ \A j \in DOMAIN calls :
        /\ calls[j].op = "append" =>
              j > 1 /\ calls[j - 1] = Call("normalize", calls[j].file, TRUE)
        /\ calls[j].op = "archive" =>
              j > 1 /\ calls[j - 1] = Call("append", calls[j].file, TRUE)
    /\ (norm.kind = "to"
          /\ "Duration" \notin RenamedColumns(norm.read, norm.column_mapping))
       => /\ calls # <<>>
          /\ calls[Len(calls)].op = "normalize"
          /\ ~calls[Len(calls)].ok

\* C2 witness: after a file that was appended and archived, a readable 'to'
\* file without Duration was rejected
C2_Witness ==
    /\ ipc = "done"
    /\ norm.kind = "to"
    /\ norm.readable
    /\ norm.result.missing = <<"Duration">>
    /\ \E j \in DOMAIN calls : calls[j].op = "archive" /\ calls[j].ok

\* C3: when the worksheet is empty, append_to_gsheet writes the header row
\* and all data rows from row 1 on; when it holds N >= 1 rows, the data range
\* starts at row N + 1, so no row 1..N lies in it and the data rows that were
\* there stay as they were.
C3_AppendNeverOverwrites ==
    LET b == last_append.before
        a == last_append.result
        df == last_append.df
        after == sheet[last_append.kind]
    IN
    (last_append.kind # "" /\ a.ok) =>
        /\ b = <<>> =>
            /\ a.start_row = 1
            /\ a.values = <<df.columns>> \o df.values
            /\ a.end_row = Len(df.values) + 1
            /\ after = a.values
        /\ Len(b) >= 1 =>
            /\ a.start_row = Len(b) + 1
            /\ Len(a.values) = Len(df.values)
            /\ \A i \in 1..Len(b) : ~(a.start_row <= i /\ i <= a.end_row)
            /\ \A i \in 2..Len(b) : after[i] = b[i]
            /\ SubSeq(after[1], 1, Len(b[1])) = b[1]
            /\ Len(after) = Len(b) + Len(df.values)

\* C3 witness: rows were appended to a worksheet that held rows already
C3_Witness ==
    /\ last_append.kind = "to"
    /\ last_append.result.ok
    /\ Len(last_append.before) >= 2
    /\ Len(last_append.df.values) >= 1
    /\ ncalls >= 2

\* the paths of tree whose content differs from what old held there
Changed(old, tree) ==
    {q \in DOMAIN tree : q \notin DOMAIN old \/ tree[q] # old[q]}

\* C4: in local mode, when the archive directory of the kind already holds a
\* file of the target name, archive_file writes the new file under another
\* name, qualified by the timestamp, and the file that was there keeps its
\* content; so after every call of a sequence of calls.
C4_CollisionKeepsOriginal ==
    LET target == ArchivePath(last_archive.kind, last_archive.filename)
        stamped == <<Stamp(last_archive.at), "_">> \o last_archive.filename.stem
    IN
    (last_archive.kind # "" /\ config.method = "local"
        /\ target \in DOMAIN last_archive.before) =>
        /\ target \in DOMAIN archive
        /\ archive[target] = last_archive.before[target]
        /\ \A q \in Changed(last_archive.before, archive) : q.stem = stamped
        /\ last_archive.location # NoLocation =>
            /\ last_archive.location # target
            /\ last_archive.location.stem = stamped
            /\ archive[last_archive.location] = DataFile(last_archive.payload)

\* C4 witness: a file was archived whose target name was taken by a file of
\* another content
C4_Witness ==
    LET target == ArchivePath(last_archive.kind, last_archive.filename) IN
    /\ last_archive.kind = "to"
    /\ target \in DOMAIN last_archive.before
    /\ last_archive.before[target] # DataFile(last_archive.payload)
    /\ last_archive.location # NoLocation
    /\ ncalls >= 2

\* the loop of run() is over
LoopOver == ipc \in {"finally", "done"} /\ downloaded_files # <<>>

\* one record per fetched file, in the order of the fetch, and every file
\* was processed
OneRecordPerFile ==
    /\ Len(results) = Len(downloaded_files)
    /\ \A i \in DOMAIN downloaded_files :
        /\ results[i].file = downloaded_files[i].filename
        /\ \E j \in DOMAIN calls :
              calls[j].op = "normalize" /\ calls[j].file = i

\* the record of file i says that nothing succeeded
RecordedFailed(i) == ~results[i].success /\ ~results[i].archived

\* C7, as stated: run() returns one record per fetched file, in fetch order;
\* a failure while normalizing, appending or archiving a file is recorded
\* with success = false and archived = false and later files are processed.
C7_EveryFailureRecordedFailed ==
    LoopOver =>
        /\ OneRecordPerFile
        /\ \A j \in DOMAIN calls : ~calls[j].ok => RecordedFailed(calls[j].file)

\* C7, amended: run() returns one record per fetched file, in fetch order,
\* and later files are processed; a failure while normalizing or appending is
\* recorded with success = false and archived = false, a failure while
\* archiving with success = true and archived = false.
C7_FailuresRecorded ==
    LoopOver =>
        /\ OneRecordPerFile
        /\ \A j \in DOMAIN calls :
            /\ (calls[j].op \in {"normalize", "append"} /\ ~calls[j].ok)
                  => RecordedFailed(calls[j].file)
            /\ (calls[j].op = "archive" /\ ~calls[j].ok)
                  => /\ results[calls[j].file].success
                     /\ ~results[calls[j].file].archived

\* C7 witness: the first of two files was appended but not archived, the
\* second was then normalized, which failed
C7_Witness ==
    /\ ipc = "done"
    /\ Len(results) = 2
    /\ \E j \in DOMAIN calls : calls[j] = Call("archive", 1, FALSE)
    /\ results[1].success
    /\ \E j \in DOMAIN calls : calls[j] = Call("normalize", 2, FALSE)
    /\ ~results[2].success

\* C9: when a run has ended, on whatever path, the temporary directory the
\* orchestrator created exists no more.
C9_TempDirRemovedAtEnd == ipc \in {"done", "crashed"} => temp_dir # "exists"

\* the required columns of a kind
Required(kind) == IF kind = "loa" THEN LoaRequired ELSE ToRequired

\* the required columns that a table lacks after the renames
Absent(kind, read, column_mapping) ==
    {c \in Range(Required(kind)) : c \notin RenamedColumns(read, column_mapping)}

\* C10: when the table of a file lacks required columns of its kind after
\* the renames, the normalizer raises an error that names each absent
\* required column once and no other, and the table has then neither a
\* timestamp column nor a default column added.
C10_RaisesNamingExactlyAbsent ==
    LET r == norm.result
        absent == Absent(norm.kind, norm.read, norm.column_mapping)
    IN
    (r # Pending /\ norm.readable /\ absent # {}) =>
        /\ r.raised
        /\ r.error = "missing"
        /\ Range(r.missing) = absent
        /\ Len(r.missing) = Cardinality(absent)
        /\ Len(r.df.columns) = Len(norm.read.columns)
        /\ Range(r.df.columns) = RenamedColumns(norm.read, norm.column_mapping)
        /\ r.df.values = norm.read.values

\* C10 witness: a 'to' table that lost Duration by a rename and lacks
\* another required column and the timestamp column was rejected
C10_Witness ==
    /\ norm.result.raised
    /\ norm.kind = "to"
    /\ norm.readable
    /\ Len(norm.result.missing) = 2
    /\ "Duration" \in Range(norm.read.columns)
    /\ "Duration" \in Range(norm.result.missing)
    /\ "timestamp_unix" \notin Range(norm.read.columns)
    /\ Len(norm.read.values) >= 1

\* the file name matches the pattern of a kind, in whatever case
MatchesTimeOff(filename) ==
    \E i \in DOMAIN filename.stem :
        filename.stem[i] \in {"Time Off", "TIME OFF", "time off"}
MatchesLeave(filename) ==
    \E i \in DOMAIN filename.stem :
        filename.stem[i] \in {"Leave of Absence", "LEAVE OF ABSENCE",
                              "leave of absence"}

\* the fetch is over and read message k to its end
ReadMessage(k) ==
    /\ ipc # "fetch"
    /\ k \in DOMAIN mailbox.messages
    /\ mailbox.failure.how # "raises"
    /\ mailbox.failure.op \notin {"select", "search"}
    /\ mailbox.failure # Failure("fetch", k, "status")

\* the kinds of the records of downloaded_files for a file name
KindsOf(filename) ==
    {downloaded_files[i].type :
        i \in {j \in DOMAIN downloaded_files :
                  downloaded_files[j].filename = filename}}

\* an attachment that matches no pattern left no record, and a warning
Skipped(filename) ==
    /\ KindsOf(filename) = {}
    /\ ipc # "done" => \A a \in tmp : a.filename # filename
    /\ filename \in fetch_email_attachments(mailbox).warned

\* C11, as stated: an Excel attachment whose name matches the time-off
\* pattern yields a record of kind 'to', one whose name matches the
\* leave-of-absence pattern a record of kind 'loa', one that matches neither
\* is skipped with a warning, without a record or a file.
C11_ClassifiedByPattern ==
    \A k \in DOMAIN mailbox.messages :
        LET filename == mailbox.messages[k].filename IN
        (ReadMessage(k) /\ IsExcel(filename)) =>
            /\ MatchesTimeOff(filename) => "to" \in KindsOf(filename)
            /\ MatchesLeave(filename) => "loa" \in KindsOf(filename)
            /\ (~MatchesTimeOff(filename) /\ ~MatchesLeave(filename))
                  => Skipped(filename)

\* C11, amended: an Excel attachment whose name matches the leave-of-absence
\* pattern yields records of kind 'loa' only, also when it matches the
\* time-off pattern too; one that matches the time-off pattern alone yields
\* records of kind 'to' only; one that matches neither is skipped with a
\* warning, without a record or a file.
C11_ClassifiedLeaveFirst ==
    \A k \in DOMAIN mailbox.messages :
        LET filename == mailbox.messages[k].filename IN
        (ReadMessage(k) /\ IsExcel(filename)) =>
            /\ MatchesLeave(filename) => KindsOf(filename) = {"loa"}
            /\ (MatchesTimeOff(filename) /\ ~MatchesLeave(filename))
                  => KindsOf(filename) = {"to"}
            /\ (~MatchesTimeOff(filename) /\ ~MatchesLeave(filename))
                  => Skipped(filename)

\* C11 witness: a fetch read a message whose attachment matches both
\* patterns and a message whose attachment matches none
C11_Witness ==
    /\ ipc = "loop"
    /\ Len(mailbox.messages) = 2
    /\ ReadMessage(1)
    /\ ReadMessage(2)
    /\ mailbox.messages[1].filename =
          FileName(<<"Time Off", "Leave of Absence">>, "xlsx")
    /\ mailbox.messages[2].filename = FileName(<<"Report">>, "xlsx")
    /\ Len(downloaded_files) = 1

\* a mailbox operation of those claim C12 lists failed
MailboxFailed ==
    /\ ipc # "fetch"
    /\ mailbox.failure.op \in {"connect", "login", "select", "search",
                               "fetch", "store", "copy", "delete"}

\* run() found no file: it went to its finally block without a call
NoFilesFound ==
    /\ downloaded_files = <<>>
    /\ ipc \in {"finally", "done"}
    /\ calls = <<>>
    /\ results = <<>>

\* C12, as stated: when a mailbox operation fails, at whatever point,
\* fetch_email_attachments returns the empty list and run() reports that
\* there is no file, without an append or an archive.
C12_AnyFailureReturnsEmpty == MailboxFailed => NoFilesFound

\* the messages of seq other than message k
Without(seq, k) ==
    [i \in 1..(Len(seq) - 1) |-> IF i < k THEN seq[i] ELSE seq[i + 1]]

\* C12, amended: when a mailbox operation raises, or select or search
\* answers with a status that is not OK, fetch_email_attachments returns the
\* empty list and run() reports that there is no file, without an append or
\* an archive; when the fetch of a message answers with such a status, that
\* message alone is skipped; the status of store and copy is not looked at.
C12_FailureReturnsEmptyOrSkips ==
    LET f == mailbox.failure IN
    MailboxFailed =>
        /\ (f.how = "raises" \/ f.op \in {"select", "search"}) => NoFilesFound
        /\ (f.op = "fetch" /\ f.how = "status") =>
              downloaded_files =
                  Records(Recognized(Without(mailbox.messages, f.at)))
        /\ (f.op \in {"store", "copy", "delete"} /\ f.how = "status") =>
              downloaded_files = Records(Recognized(mailbox.messages))
        /\ downloaded_files = <<>> => NoFilesFound

\* C12 witness: the store of the second message raised after the attachments
\* of both messages were saved
C12_Witness ==
    /\ ipc = "finally"
    /\ mailbox.failure = Failure("store", 2, "raises")
    /\ Cardinality(tmp) = 2
    /\ downloaded_files = <<>>

\* ---------------------------------------- claims: model-diff tool, go on

\* the steps of the primary model that claim C13 orders
OrderedSteps == <<"locate", "fetch", "create_temps", "macro", "run_main",
                  "run_current", "compare", "save">>

\* those of the steps taken so far, in the order they were taken
OrderedLog == SelectSeq(steps, LAMBDA st : st.op \in Range(OrderedSteps))

\* a step op was taken before position i of the log and succeeded
SucceededBefore(op, i) ==
    \E j \in 1..(i - 1) : OrderedLog[j].op = op /\ OrderedLog[j].ok

\* C13: the steps of the primary model are taken in the order locate, fetch
\* baseline, create temp models, generate macro, run baseline, run current,
\* compare, save results, each once at most; the comparison is invoked only
\* after both runs returned status zero, and save_results is called only
\* after the comparison returned status zero.
C13_PrimaryStepOrder ==
    /\ Len(OrderedLog) <= Len(OrderedSteps)
    /\ \A i \in DOMAIN OrderedLog :
        /\ OrderedLog[i].op = OrderedSteps[i]
        /\ OrderedLog[i].op = "compare" =>
              /\ SucceededBefore("run_main", i)
              /\ SucceededBefore("run_current", i)
        /\ OrderedLog[i].op = "save" => SucceededBefore("compare", i)

\* C13 witness: a run took every step and saved the comparison
C13_Witness ==
    /\ pc = "done"
    /\ Len(OrderedLog) = Len(OrderedSteps)
    /\ OrderedLog[Len(OrderedLog)].ok
    /\ saved # {}

\* C14: when git rev-parse or git show ends with a non-zero status,
\* get_main_branch_content returns None to its caller and does not raise.
C14_LookupFailureReturnsNone ==
    baseline.git \in {"rev_parse_fails", "show_fails"} =>
        /\ ~baseline.raised
        /\ baseline.value = None
        /\ pending # "exception"

\* the last step taken was the listing of the downstream models
JustListed == steps # <<>> /\ steps[Len(steps)].op = "list_downstream"

\* C15: when the build tool cannot be invoked ('dbt deps' or 'dbt list' ends
\* with a non-zero status, or dbt cannot be executed at all),
\* get_immediate_downstream_models returns the empty list and does not
\* raise; when it succeeds, the list does not contain the queried model.
C15_ListingFailureReturnsEmpty ==
    JustListed =>
        /\ ~steps[Len(steps)].ok =>
              downstream_models = <<>> /\ pending # "exception"
        /\ steps[Len(steps)].ok =>
              original_name \notin Range(downstream_models)

\* save_results has been called and has written its report
Reported ==
    /\ last_call.fn = "save_results"
    /\ last_call.result # Pending
    /\ "txt" \in DOMAIN last_call.result.files

\* the two sections of the report save_results wrote
Report == last_call.result.files["txt"]

\* the first line of the text for which at(line) holds, or the line after
\* the last one
FirstLine(text, at(_)) ==
    IF \E i \in DOMAIN text : at(text[i])
    THEN CHOOSE i \in DOMAIN text :
             at(text[i]) /\ \A j \in 1..(i - 1) : ~at(text[j])
    ELSE Len(text) + 1

\* the lines of the text with a number in picked, in their order
Section(text, picked) ==
    LET part[i \in 0..Len(text)] ==
            IF i = 0 THEN <<>>
            ELSE IF i \in picked THEN Append(part[i - 1], text[i])
            ELSE part[i - 1]
    IN part[Len(text)]

HasStart(line) == In(StartMarker, line)
HasData(line) == In(DataMarker, line)
HasEnd(line) == In(EndMarker, line)

\* C16 as stated: for any input text, the schema section is exactly the
\* lines after the start marker and before the data-comparison marker that
\* contain ':', the data section is exactly the lines after the
\* data-comparison marker and before the end marker that contain '|', and
\* no line before the start marker or after the end marker is in a section.
C16_SectionsBetweenMarkers ==
    Reported =>
        LET text == last_call.output
            s == FirstLine(text, HasStart)
            d == FirstLine(text, HasData)
            e == FirstLine(text, HasEnd)
        IN
        /\ Report.schema_changes =
               Section(text, {i \in DOMAIN text :
                                 s < i /\ i < d /\ i < e /\ In(":", text[i])})
        /\ Report.data_comparison =
               Section(text, {i \in DOMAIN text :
                                 s < i /\ d < i /\ i < e /\ In("|", text[i])})

\* a line that holds a marker counts as its first marker in the order start,
\* data-comparison, end
IsStart(line) == HasStart(line)
IsData(line) == HasData(line) /\ ~HasStart(line)
IsEnd(line) == HasEnd(line) /\ ~HasStart(line) /\ ~HasData(line)
IsMarker(line) == HasStart(line) \/ HasData(line) \/ HasEnd(line)

\* C16, amended: a line that holds a marker is in no section; of the other
\* lines, the schema section is exactly those after the first start line and
\* before the first data-comparison line and the first end line that contain
\* ':', and the data section exactly those after the first start line and
\* the first data-comparison line and before the first end line that
\* contain '|'.
C16_SectionsOfPlainLines ==
    Reported =>
        LET text == last_call.output
            s == FirstLine(text, IsStart)
            d == FirstLine(text, IsData)
            e == FirstLine(text, IsEnd)
        IN
        /\ Report.schema_changes =
               Section(text, {i \in DOMAIN text :
                                 /\ ~IsMarker(text[i])
                                 /\ s < i /\ i < d /\ i < e
                                 /\ In(":", text[i])})
        /\ Report.data_comparison =
               Section(text, {i \in DOMAIN text :
                                 /\ ~IsMarker(text[i])
                                 /\ s < i /\ d < i /\ i < e
                                 /\ In("|", text[i])})

\* a report with both sections filled, from a text that repeats the start
\* marker behind a time stamp
C16_Witness ==
    /\ Reported
    /\ Report.schema_changes # <<>>
    /\ Report.data_comparison # <<>>
    /\ \E i \in DOMAIN last_call.output :
           last_call.output[i] = <<"t", ":", StartMarker>>

\* save_results has been called and has returned the result directory
Saved ==
    /\ last_call.fn = "save_results"
    /\ last_call.result # Pending
    /\ last_call.result.returned

\* the rows of the tabular section: of each of its lines the cells between
\* the bars that are not blank
Rows == table_data(Report.data_comparison)

\* C17: every successful call of save_results writes model_comparison.txt
\* and raw_output.txt, the latter holding the unmodified input;
\* model_comparison.csv is written if and only if the tabular section
\* yields at least 2 rows, and then holds the first row as the header
\* followed by the other rows.
C17_FilesWritten ==
    Saved =>
        LET files == last_call.result.files IN
        /\ {"txt", "raw"} \subseteq DOMAIN files
        /\ files["raw"] = last_call.output
        /\ "csv" \in DOMAIN files <=> Len(Rows) >= 2
        /\ "csv" \in DOMAIN files =>
              /\ files["csv"].header = Rows[1]
              /\ files["csv"].rows = SubSeq(Rows, 2, Len(Rows))

\* a successful call that wrote the three files, the table with a data row
C17_Witness ==
    /\ Saved
    /\ DOMAIN last_call.result.files = {"txt", "csv", "raw"}
    /\ Len(last_call.result.files["csv"].rows) >= 1

\* the macro has been run
Compared == last_call.fn = "compare_versions" /\ last_call.result # Pending

\* the names of a column list in lower case
LowerNames(cols) == {lower(cols[i].name) : i \in DOMAIN cols}

\* C18: the lists common / left-only / right-only partition the columns: a
\* side-1 column is in common exactly when some side-2 column has the same
\* name case-insensitively and in left-only otherwise, a side-2 column
\* without a match on side 1 is in right-only, no column is in both common
\* and a one-sided list; with the two models swapped left-only and
\* right-only are swapped and the set of common columns is the same.
C18_ColumnPartition ==
    Compared =>
        LET cols1 == last_call.cols1
            cols2 == last_call.cols2
            common == Range(last_call.result.common_cols)
            left == Range(last_call.result.version1_only_cols)
            right == Range(last_call.result.version2_only_cols)
            swapped == compare_versions(cols2, cols1)
        IN
        /\ \A i \in DOMAIN cols1 :
              /\ cols1[i].name \in common <=>
                     lower(cols1[i].name) \in LowerNames(cols2)
              /\ cols1[i].name \in left <=>
                     lower(cols1[i].name) \notin LowerNames(cols2)
        /\ \A j \in DOMAIN cols2 :
              lower(cols2[j].name) \notin LowerNames(cols1) =>
                  cols2[j].name \in right
        /\ common \cap (left \cup right) = {}
        /\ swapped.version1_only_cols = last_call.result.version2_only_cols
        /\ swapped.version2_only_cols = last_call.result.version1_only_cols
        /\ {lower(c) : c \in Range(swapped.common_cols)} =
               {lower(c) : c \in common}

\* ------------------------------------------- claims: model-diff tool, paths

\* find_model_path was called with a path ending in ".sql" at which a file
\* exists
PathGiven ==
    /\ lookup.result.outcome # "none"
    /\ lookup.arg.sql
    /\ [dir |-> lookup.arg.dir, stem |-> lookup.arg.stem] \in lookup.files

\* C20 as stated: find_model_path with an argument ending in '.sql' at which
\* a file exists returns that path itself, without a search of the models
\* directory and whatever the current directory is.
C20_ExistingPathReturned ==
    PathGiven =>
        /\ lookup.result.path = [dir |-> lookup.arg.dir,
                                 stem |-> lookup.arg.stem]
        /\ lookup.result.outcome = "path"

\* C20, amended: when the current directory lies in a project tree the path
\* itself is returned without a search of the models directory; when it
\* does not, None is returned although the file exists.
C20_ExistingPathReturnedInProject ==
    PathGiven =>
        /\ in_project =>
              /\ lookup.result.path = [dir |-> lookup.arg.dir,
                                       stem |-> lookup.arg.stem]
              /\ lookup.result.outcome = "path"
        /\ ~in_project =>
              /\ lookup.result.path = NoPath
              /\ lookup.result.outcome = "no_project"

\* a path was given whose stem matches several files of the models directory
C20_Witness ==
    /\ PathGiven
    /\ in_project
    /\ lookup.result.outcome = "path"
    /\ Cardinality(Candidates(lookup.files, lookup.arg.stem)) > 1

\* ------------------------------------------- claims: ingest pipeline, go on

\* the columns of the incoming table that the header row does not hold, in
\* the order of the table
NewColumns(df, headers) ==
    SelectSeq(df.columns, LAMBDA col : col \notin Range(headers))

\* the cell of row r of the table under the header h, the null marker when
\* the table has no such column
CellUnder(df, r, h) ==
    IF \E c \in DOMAIN df.columns : df.columns[c] = h
    THEN df.values[r][CHOOSE c \in DOMAIN df.columns : df.columns[c] = h]
    ELSE NaN

\* C19: append_to_gsheet on a non-empty sheet: when the incoming table has
\* columns that the header row lacks, the header row becomes the existing
\* headers, unchanged and in their order, followed by the new columns;
\* every appended row is laid out in the order of that header row, with the
\* null marker under each header the table lacks, and the rows are written
\* as one contiguous range.
C19_RowsFollowHeaderOrder ==
    LET b == last_append.before
        a == last_append.result
        df == last_append.df
        after == sheet[last_append.kind]
    IN
    (last_append.kind # "" /\ a.ok /\ b # <<>>) =>
        LET new == NewColumns(df, b[1])
            header_row == b[1] \o new
        IN
        /\ after[1] = header_row
        /\ Len(after) = Len(b) + Len(df.values)
        /\ \A r \in DOMAIN df.values :
              /\ Len(after[Len(b) + r]) = Len(header_row)
              /\ \A h \in DOMAIN header_row :
                    after[Len(b) + r][h] = CellUnder(df, r, header_row[h])
        /\ a.start_row = Len(b) + 1
        /\ a.end_row = Len(b) + Len(df.values)
        /\ a.ncols = Len(header_row)
        /\ a.values = [r \in DOMAIN df.values |-> after[Len(b) + r]]

\* rows of a table that has a column the header row lacks, and lacks a
\* column of the header row, were appended to a sheet with a header row
C19_Witness ==
    /\ last_append.kind = "to"
    /\ last_append.result.ok
    /\ last_append.before # <<>>
    /\ Len(last_append.df.values) >= 1
    /\ NewColumns(last_append.df, last_append.before[1]) # <<>>
    /\ \E h \in DOMAIN last_append.before[1] :
           last_append.before[1][h] \notin Range(last_append.df.columns)

\* C21: archive_file in google_drive mode, when every call of the storage
\* service succeeds, uploads the file to the folder of its kind and returns
\* the URL of the uploaded object; it returns None only when a step failed.
C21_DriveUploadReturnsUrl ==
    (last_archive.kind # "" /\ config.method = "google_drive"
        /\ last_archive.io = "ok") =>
        last_archive.location # NoLocation

\* message k has been flagged as processed in the mailbox: seen, or copied
\* to the processed folder and flagged deleted
Processed(k) ==
    /\ ipc # "fetch"
    /\ k \in DOMAIN mailbox.messages
    /\ \/ "seen" \in flags(mailbox, k)
       \/ {"copied", "deleted"} \subseteq flags(mailbox, k)

\* C22: whenever fetch_email_attachments has flagged a message as processed,
\* every recognized attachment of that message is in the list the function
\* returns, also when the fetch or the store of a later message fails.
C22_ProcessedMessagesReturned ==
    \A k \in DOMAIN mailbox.messages :
        LET filename == mailbox.messages[k].filename IN
        (Processed(k) /\ IsExcel(filename) /\ file_type_of(filename) # None)
            => \E i \in DOMAIN downloaded_files :
                   downloaded_files[i].filename = filename

\* the attachments the returned records were made for, in the order of the
\* records: the recognized attachments of the messages that were fetched
OwnAttachments ==
    LET f == mailbox.failure IN
    IF f.op = "fetch" /\ f.how = "status"
    THEN Recognized(Without(mailbox.messages, f.at))
    ELSE Recognized(mailbox.messages)

\* C23: for every record fetch_email_attachments returns, the file at the
\* path of the record holds the payload of the attachment the record was
\* made for, also when two attachments of the run have the same file name.
C23_RecordFileHoldsOwnPayload ==
    ipc = "loop" =>
        /\ Len(downloaded_files) = Len(OwnAttachments)
        /\ \A i \in DOMAIN downloaded_files :
              /\ downloaded_files[i].filename = OwnAttachments[i].filename
              /\ ReadTemp(tmp, downloaded_files[i].filename) =
                     OwnAttachments[i].table

\* C24: when append_to_gsheet returns False, the worksheet is as it was
\* before the call, its header row included.
C24_FailedAppendLeavesSheet ==
    (last_append.kind # "" /\ ~last_append.result.ok) =>
        sheet[last_append.kind] = last_append.before

\* the data file at path q of the tree has its own sidecar: the JSON file of
\* its name, whose archived_filename is the name of the data file
HasOwnSidecar(tree, q) ==
    LET side == [q EXCEPT !.ext = "json"] IN
    /\ side \in DOMAIN tree
    /\ tree[side].archived_filename = FileName(q.stem, q.ext)

\* C25: in local mode no call of archive_file overwrites a file that is in
\* the archive tree, data file or sidecar, and every archived data file
\* keeps its own sidecar, which records the name of that data file; so for
\* any sequence of file names, also names that differ in the extension only
\* and repeated collisions within one second.
C25_ArchiveNeverOverwrites ==
    (last_archive.kind # "" /\ config.method = "local") =>
        /\ \A q \in DOMAIN last_archive.before :
              /\ q \in DOMAIN archive
              /\ archive[q] = last_archive.before[q]
        /\ \A q \in DOMAIN last_archive.before :
              (q.ext # "json" /\ HasOwnSidecar(last_archive.before, q))
                  => HasOwnSidecar(archive, q)
        /\ last_archive.location # NoLocation =>
              HasOwnSidecar(archive, last_archive.location)

\* ------------------------------------------- claims: model-diff tool, names

\* C26: whenever find_model_path with a bare model name returns a file, the
\* name of that file without '.sql' is the model name that was asked for.
C26_FoundFileHasRequestedName ==
    (lookup.result.outcome = "found" /\ ~lookup.arg.sql) =>
        lookup.result.path.stem = lookup.arg.stem
====
